---- MODULE Spec2Model ----
(***************************************************************************)
(* A model of the ns_compiler pipeline: the two semantic passes            *)
(* (VariableResolver, LoopLabeler), the TAC generator (TasGenerator) and   *)
(* the three code generation passes (generateFunction,                     *)
(* replacePseudoregisters, fixupInvalidInstructions).                      *)
(*                                                                         *)
(* The semantic passes are recursive walks over the AST.  They are         *)
(* modelled as the walk itself: the call stack of the recursion is the     *)
(* state, one action per `case` of the pass's switch, and the node that is *)
(* visited next is chosen nondeterministically, so that every AST up to    *)
(* the depth bound is covered.                                             *)
(***************************************************************************)
EXTENDS Integers, Sequences, FiniteSets, TLC

\* ------------------------------------------------------------------ bounds
\* deepest nesting of statements the walks follow
MaxDepth == 4
\* most loops the labeler labels in one compilation
MaxLoops == 3
\* most functions of one program
MaxFuncs == 2
\* most declarations the resolver renames in one compilation
MaxVars == 2
\* deepest nesting of statements the resolver follows
MaxNest == 2
\* largest value a source variable holds when the compiled expression runs
MaxValue == 2
\* most block items of the function body taken through code generation
MaxItems == 3
\* operands of a parsed expression statement
MaxOperands == 5
\* most characters of a source text given to the lexer
MaxText == 4
\* largest value a stack slot holds when the machine starts
MaxSlot == 2
\* most tokens between the head of a function and the EOF token
MaxTokens == 3

VARIABLES
  \* ---- LoopLabeler (src/semanticAnalysis/loopLabeler.ts)
  loopLabelCounter,   \* LoopLabeler.loopLabelCounter
  lStack,             \* the recursion of labelBlock/labelStatement: one frame per open statement
  lFunc,              \* index of the function of program.body being labelled
  lPc,                \* "run" | "done" (labelLoops returned) | "failed" (bail)
  lNodes,             \* the label fields of the Break/Continue nodes labelled so far,
                      \* each with the label of the innermost loop open around it
  lLast               \* the statement labelStatement handled last

labelerVars == <<loopLabelCounter, lStack, lFunc, lPc, lNodes, lLast>>

VARIABLES
  \* ---- VariableResolver (src/semanticAnalysis/variableResolver.ts)
  variableCounter,    \* VariableResolver.variableCounter
  rStack,             \* the recursion of resolveBlock/resolveStatement: one frame per open statement
  rScopes,            \* the Scope objects alive, outermost first; a frame names its scope by index
  rBlocks,            \* per Scope object, the declarations written directly in its block: name -> symbol
  rFunc,              \* index of the function of program.body being resolved
  rPc,                \* "run" | "done" (resolveVariables returned) | "failed" (bail)
  rErr,               \* the error bail reported
  rDecls,             \* the Declaration nodes resolved so far: function and (rewritten) symbol
  rLast               \* the declaration or expression handled last

resolverVars ==
  <<variableCounter, rStack, rScopes, rBlocks, rFunc, rPc, rErr, rDecls, rLast>>

VARIABLES
  \* ---- TasGenerator (src/tacky.ts) and the run of the TAC it emits
  tExpr,              \* the expression of the `return <expr>;` compiled
  tCode,              \* TasFunction.instructions
  tIn,                \* the value of each source variable when the run starts
  tEnv,               \* the value of each TAC variable written so far
  tIp,                \* index in tCode of the instruction executed next
  tPc,                \* "ast" | "exec" | "returned"
  tRet,               \* the value the Return instruction returned
  tWrites             \* how often the run has written the variable that is returned

tacVars == <<tExpr, tCode, tIn, tEnv, tIp, tPc, tRet, tWrites>>

VARIABLES
  \* ---- one function through generateTas and generateAsmTree (src/unnamed/part_007)
  cPhase,             \* "ast" | "A" | "B" | "C": the last pass that ran
  cItems,             \* number of block items of the function body emitted so far
  cDeclared,          \* the symbols the body has declared so far
  cGen,               \* the TasGenerator: instructions and counters
  cAsmA,              \* AsmFunction.instructions after generateFunction
  cAsmB,              \* ... after replacePseudoregisters
  cAsmC               \* ... after fixupInvalidInstructions

codegenVars == <<cPhase, cItems, cDeclared, cGen, cAsmA, cAsmB, cAsmC>>

VARIABLES
  \* ---- a whole program through labelLoops and generateTas
  pBody,              \* Program.body: the body (Block.blockItems) of each function, labelled
  pLoopLabelCounter,  \* LoopLabeler.loopLabelCounter
  pPc,                \* "label" | "failed" (bail) | "tas" (generateTas returned)
  pTas                \* TasProgram.body: the instructions of each TasFunction

programVars == <<pBody, pLoopLabelCounter, pPc, pTas>>

VARIABLES
  \* ---- Parser (src/parser.ts) on the tokens of an expression statement
  psTokens,           \* Parser.tokens before the statement is parsed, without the `;`
  psAst,              \* the Expr of the ExpressionStatement parsed
  psPc                \* "tokens" | "parsed" | "failed" (bail or throw)

parserVars == <<psTokens, psAst, psPc>>

VARIABLES
  \* ---- the driver (src/main.ts), default branch
  dSource,            \* the source file read: its functions and the stage that rejects it
  dPc,                \* the call main is about to make, "done" or "aborted"
  dFunc,              \* generateAsmTree: index of the function in the loop
  dLog,               \* the calls that have returned, in order
  dOut                \* out.asm: "absent" | "written"

driverVars == <<dSource, dPc, dFunc, dLog, dOut>>

VARIABLES
  \* ---- Lexer (src/unnamed/part_002)
  lxInput,            \* the argument of tokenize, a sequence of characters
  lxSource,           \* Lexer.sourceCode
  lxLine,             \* Lexer.line
  lxTokens,           \* Lexer.tokens
  lxStarts,           \* for each token, the place of its first character in lxInput
  lxPc                \* "idle" | "loop" | "done" | "bail"
lexerVars == <<lxInput, lxSource, lxLine, lxTokens, lxStarts, lxPc>>

VARIABLES
  \* ---- the run of the code of one function before and after pass C
  mTas,               \* TasFunction.instructions
  mSel,               \* AsmFunction.instructions after generateFunction
  mIn,                \* ... after replacePseudoregisters: the input of pass C
  mOut,               \* ... after fixupInvalidInstructions
  mA,                 \* the machine that runs mIn
  mB,                 \* the machine that runs mOut
  mLast,              \* the place in mIn of the instruction run last, 0 before the first
  mPc                 \* "idle" | "run" | "done"
machineVars == <<mTas, mSel, mIn, mOut, mA, mB, mLast, mPc>>

VARIABLES
  \* ---- Parser.produceAst (src/parser.ts), call by call
  paInput,            \* the types of the tokens given to produceAst
  paTokens,           \* the types of Parser.tokens
  paTodo,             \* what the calls in progress still have to do, the next thing first
  paPc                \* "idle" | "run" | "done" (a Program returned) | "failed"
produceVars == <<paInput, paTokens, paTodo, paPc>>

vars == <<labelerVars, resolverVars, tacVars, codegenVars, programVars, parserVars, driverVars,
          lexerVars, machineVars, produceVars>>

\* ------------------------------------------------------------------ helpers
Last(s) == s[Len(s)]
Front(s) == SubSeq(s, 1, Len(s) - 1)
ReplaceLast(s, x) == [s EXCEPT ![Len(s)] = x]
\* the element of a one-element set.  Only({F(x) : x \in {e}}) is F(e) with
\* e evaluated once, however often F uses x: the results of the recursive
\* walks are bound this way
Only(S) == CHOOSE x \in S : TRUE

\* ====================================================================
\* AST (src/parser.ts)
\* ====================================================================
\* A symbol is a string; it is kept as the tuple of its parts between dots,
\* so that `var.<src>.renamed.<n>` is <<"var", src, "renamed", n>> and the
\* source identifier `a` is <<"a">>.
NumLiteral(v) == [kind |-> "NumLiteral", value |-> v]
Variable(symbol) == [kind |-> "Variable", symbol |-> symbol]
UnaryExpr(operator, expr) == [kind |-> "UnaryExpr", operator |-> operator, expr |-> expr]
BinaryExpr(operator, left, right) ==
  [kind |-> "BinaryExpr", operator |-> operator, left |-> left, right |-> right]
Assignment(left, right) == [kind |-> "Assignment", left |-> left, right |-> right]
ConditionalExpr(condition, ifTrue, ifFalse) ==
  [kind |-> "Conditional", condition |-> condition, ifTrue |-> ifTrue, ifFalse |-> ifFalse]
\* an absent optional node (`undefined`)
Undefined == [kind |-> "undefined"]
Declaration(symbol, expr) == [kind |-> "Declaration", symbol |-> symbol, expr |-> expr]

\* ====================================================================
\* VariableResolver (src/semanticAnalysis/variableResolver.ts)
\* ====================================================================
\* The source identifiers of the programs walked.  The lexer types an
\* identifier by RESERVED_KEYWORDS[ident] ?? Identifier, so a name that
\* Object.prototype defines never reaches the parser as an Identifier, and a
\* Scope (a plain object) is looked up with own keys only.
Names == {<<"a">>, <<"b">>}

RAtoms == {NumLiteral(1)} \cup {Variable(n) : n \in Names}
\* the expressions of the programs walked: every node kind over the atoms
RExprs ==
  RAtoms
  \cup {UnaryExpr("-", e) : e \in RAtoms}
  \cup {BinaryExpr("+", l, r) : l \in RAtoms, r \in RAtoms}
  \cup {Assignment(l, r) : l \in RAtoms, r \in RAtoms}
  \cup {ConditionalExpr(c, t, NumLiteral(1)) : c \in RAtoms, t \in RAtoms}
  \cup {ConditionalExpr(c, NumLiteral(1), f) : c \in RAtoms, f \in RAtoms}
  \cup {UnaryExpr("-", Assignment(NumLiteral(1), NumLiteral(1))),
        ConditionalExpr(NumLiteral(1), NumLiteral(1),
                        Assignment(NumLiteral(1), NumLiteral(1)))}

\* bail(message): prints the message and ends the process
bail(err, expr) == [ok |-> FALSE, err |-> err, expr |-> expr]
Resolved(expr) == [ok |-> TRUE, err |-> "", expr |-> expr]

\* Scope = Record<string, ScopeEntry>: a function on the names it holds
EmptyScope == [n \in {} |-> [uniqueSymbol |-> <<>>, inCurrentBlock |-> FALSE]]
ScopeEntry(uniqueSymbol, inCurrentBlock) ==
  [uniqueSymbol |-> uniqueSymbol, inCurrentBlock |-> inCurrentBlock]
ScopeSet(scope, key, entry) ==
  [k \in DOMAIN scope \cup {key} |-> IF k = key THEN entry ELSE scope[k]]

\* faulty variant: the entries keep their current-block flag
createInnerScope_KeepFlags(scope) == scope

createInnerScope(scope) ==
  [key \in DOMAIN scope |-> ScopeEntry(scope[key].uniqueSymbol, FALSE)]

RECURSIVE resolveExpression(_, _)
resolveExpression(expr, scope) ==
  CASE expr.kind = "Assignment" ->
         IF expr.left.kind # "Variable" THEN bail("InvalidLvalue", expr)
         ELSE LET l == resolveExpression(expr.left, scope) IN
              IF ~l.ok THEN l
              ELSE LET r == resolveExpression(expr.right, scope) IN
                   IF ~r.ok THEN r
                   ELSE Resolved([expr EXCEPT !.left = l.expr, !.right = r.expr])
    [] expr.kind = "Variable" ->
         IF expr.symbol \notin DOMAIN scope THEN bail("Undeclared", expr)
         ELSE Resolved([expr EXCEPT !.symbol = scope[expr.symbol].uniqueSymbol])
    [] expr.kind = "UnaryExpr" ->
         LET e == resolveExpression(expr.expr, scope) IN
         IF ~e.ok THEN e ELSE Resolved([expr EXCEPT !.expr = e.expr])
    [] expr.kind = "BinaryExpr" ->
         LET l == resolveExpression(expr.left, scope) IN
         IF ~l.ok THEN l
         ELSE LET r == resolveExpression(expr.right, scope) IN
              IF ~r.ok THEN r
              ELSE Resolved([expr EXCEPT !.left = l.expr, !.right = r.expr])
    [] expr.kind = "Conditional" ->
         LET c == resolveExpression(expr.condition, scope) IN
         IF ~c.ok THEN c
         ELSE LET t == resolveExpression(expr.ifTrue, scope) IN
              IF ~t.ok THEN t
              ELSE LET f == resolveExpression(expr.ifFalse, scope) IN
                   IF ~f.ok THEN f
                   ELSE Resolved([expr EXCEPT !.condition = c.expr,
                                              !.ifTrue = t.expr, !.ifFalse = f.expr])
    [] expr.kind = "NumLiteral" -> Resolved(expr)
    [] OTHER -> bail("Unresolvable", expr)

\* faulty variant: the initializer is resolved before the name is bound
resolveDecleration_InitFirst(decl, scope, counter) ==
  IF decl.symbol \in DOMAIN scope /\ scope[decl.symbol].inCurrentBlock
  THEN [ok |-> FALSE, err |-> "Duplicate", decl |-> decl, scope |-> scope,
        counter |-> counter]
  ELSE LET uniqueIdent == <<"var">> \o decl.symbol \o <<"renamed", counter>>
           bound == ScopeSet(scope, decl.symbol, ScopeEntry(uniqueIdent, TRUE))
           init == IF decl.expr = Undefined THEN Resolved(Undefined)
                   ELSE resolveExpression(decl.expr, scope)
       IN  [ok |-> init.ok, err |-> init.err,
            decl |-> IF init.ok THEN Declaration(uniqueIdent, init.expr) ELSE decl,
            scope |-> bound, counter |-> counter + 1]

\* resolveDecleration(decl, scope) with this.variableCounter = counter: the
\* duplicate test, the fresh name, the binding, then the initializer (resolved
\* with the binding in place) and the rewrite of decl.symbol.
resolveDecleration(decl, scope, counter) ==
  IF decl.symbol \in DOMAIN scope /\ scope[decl.symbol].inCurrentBlock
  THEN [ok |-> FALSE, err |-> "Duplicate", decl |-> decl, scope |-> scope,
        counter |-> counter]
  ELSE LET uniqueIdent == <<"var">> \o decl.symbol \o <<"renamed", counter>>
           bound == ScopeSet(scope, decl.symbol, ScopeEntry(uniqueIdent, TRUE))
           init == IF decl.expr = Undefined THEN Resolved(Undefined)
                   ELSE resolveExpression(decl.expr, bound)
       IN  [ok |-> init.ok, err |-> init.err,
            decl |-> IF init.ok THEN Declaration(uniqueIdent, init.expr) ELSE decl,
            scope |-> bound, counter |-> counter + 1]

\* ------------------------------------------------------------ the walk
\* A frame is an open statement, the Scope it resolves its children with
\* and the children still to come, in the order the code resolves them:
\* "items" (the block items of a block), "expr" / "expr?" (an expression, an
\* optional one), "stmt" / "stmt?" and "init" (the ForInit).
RFrame(kind, scope, todo) == [kind |-> kind, scope |-> scope, todo |-> todo]
ROwnsScope(f) == f.kind \in {"Function", "Compound", "For"}
RComplete(f) == f.todo \in {<<>>, <<"stmt?">>} \/ f.kind = "Compound"
RTop == Last(rStack)
RScope == rScopes[RTop.scope]
RNextSlot == IF RTop.todo = <<>> THEN "none" ELSE Head(RTop.todo)
RSlotDone(f) == IF Head(f.todo) = "items" THEN f ELSE [f EXCEPT !.todo = Tail(@)]
\* the walk is between two nodes: the call that handled the last one has returned
RReady == rPc = "run" /\ rLast.kind = "None"
RAtStatement == RReady /\ RNextSlot \in {"items", "stmt", "stmt?"}

\* the names an expression mentions
RECURSIVE MentionedNames(_)
MentionedNames(expr) ==
  CASE expr.kind = "Variable" -> {expr.symbol}
    [] expr.kind = "UnaryExpr" -> MentionedNames(expr.expr)
    [] expr.kind \in {"BinaryExpr", "Assignment"} ->
         MentionedNames(expr.left) \cup MentionedNames(expr.right)
    [] expr.kind = "Conditional" ->
         MentionedNames(expr.condition) \cup MentionedNames(expr.ifTrue)
           \cup MentionedNames(expr.ifFalse)
    [] OTHER -> {}

\* the expression holds, at some depth, an Assignment whose left side is not
\* a Variable node
RECURSIVE HasInvalidLvalue(_)
HasInvalidLvalue(expr) ==
  CASE expr.kind = "Assignment" ->
         expr.left.kind # "Variable" \/ HasInvalidLvalue(expr.left)
           \/ HasInvalidLvalue(expr.right)
    [] expr.kind = "UnaryExpr" -> HasInvalidLvalue(expr.expr)
    [] expr.kind = "BinaryExpr" ->
         HasInvalidLvalue(expr.left) \/ HasInvalidLvalue(expr.right)
    [] expr.kind = "Conditional" ->
         HasInvalidLvalue(expr.condition) \/ HasInvalidLvalue(expr.ifTrue)
           \/ HasInvalidLvalue(expr.ifFalse)
    [] OTHER -> FALSE

\* the Variable nodes of a resolved expression: source name and new symbol
RECURSIVE Bindings(_, _)
Bindings(orig, res) ==
  CASE orig.kind = "Variable" -> {<<orig.symbol, res.symbol>>}
    [] orig.kind = "UnaryExpr" -> Bindings(orig.expr, res.expr)
    [] orig.kind \in {"BinaryExpr", "Assignment"} ->
         Bindings(orig.left, res.left) \cup Bindings(orig.right, res.right)
    [] orig.kind = "Conditional" ->
         Bindings(orig.condition, res.condition) \cup Bindings(orig.ifTrue, res.ifTrue)
           \cup Bindings(orig.ifFalse, res.ifFalse)
    [] OTHER -> {}

\* C scoping, from the block structure alone: the symbol of the innermost
\* declaration of `name` written so far in the blocks open at depth <= i
NoSymbol == <<>>
RECURSIVE Visible(_, _, _)
Visible(blocks, i, name) ==
  IF i = 0 THEN NoSymbol
  ELSE IF name \in DOMAIN blocks[i] THEN blocks[i][name]
  ELSE Visible(blocks, i - 1, name)
EmptyBlock == [n \in {} |-> NoSymbol]
BlockSet(block, name, symbol) ==
  [k \in DOMAIN block \cup {name} |-> IF k = name THEN symbol ELSE block[k]]

RNone ==
  [kind |-> "None", name |-> <<>>, dup |-> FALSE, outer |-> FALSE, symbol |-> NoSymbol,
   fresh |-> FALSE, binds |-> {}, undeclared |-> {}, invalid |-> FALSE,
   closed |-> EmptyBlock]
\* what is known of an expression handled with the blocks `blocks`
RExprNote(expr, res, blocks) ==
  [RNone EXCEPT !.kind = "Expr",
     !.binds = IF res.ok
               THEN {[name |-> b[1], symbol |-> b[2],
                      expected |-> Visible(blocks, Len(blocks), b[1])]
                     : b \in Bindings(expr, res.expr)}
               ELSE {},
     !.undeclared = {n \in MentionedNames(expr) : Visible(blocks, Len(blocks), n) = NoSymbol},
     !.invalid = HasInvalidLvalue(expr)]

ResolverInit ==
  /\ variableCounter = 0
  /\ rStack = <<RFrame("Function", 1, <<"items">>)>>
  /\ rScopes = <<EmptyScope>>
  /\ rBlocks = <<EmptyBlock>>
  /\ rFunc = 1
  /\ rPc = "run"
  /\ rErr = ""
  /\ rDecls = <<>>
  /\ rLast = RNone

\* the effect of resolveExpression(expr, scope) on the walk
RExpression(expr, stack) ==
  LET res == resolveExpression(expr, RScope) IN
  /\ rLast' = [RExprNote(expr, res, rBlocks) EXCEPT !.closed = rLast.closed]
  /\ IF res.ok
     THEN /\ rStack' = stack
          /\ UNCHANGED <<rPc, rErr>>
     ELSE /\ rPc' = "failed"
          /\ rErr' = res.err
          /\ UNCHANGED rStack
  /\ UNCHANGED <<variableCounter, rScopes, rBlocks, rFunc, rDecls>>
  /\ UNCHANGED <<labelerVars, tacVars, codegenVars, programVars, parserVars, driverVars, lexerVars,
               machineVars, produceVars>>

\* resolveStatement, case "Return" and case "Expression": the statement's
\* expression is resolved with the statement's scope
ResolveExpressionStatement(expr) ==
  /\ RAtStatement
  /\ RExpression(expr, ReplaceLast(rStack, RSlotDone(RTop)))

\* the condition of an If, While or DoWhile, the condition or post of a For
ResolveCondition(expr) ==
  /\ RReady
  /\ RNextSlot \in {"expr", "expr?"}
  /\ RExpression(expr, ReplaceLast(rStack, RSlotDone(RTop)))

\* resolveForInit on an expression: the switch is on init.init.kind, which
\* for an expression is the kind of its node ("Assignment", "Variable", ...),
\* never "Expr": no case runs and the expression stays as parsed
ResolveForInitExpr(expr) ==
  /\ RReady
  /\ RNextSlot = "init"
  /\ rLast' = [RExprNote(expr, Resolved(expr), rBlocks) EXCEPT !.kind = "ForInitExpr"]
  /\ rStack' = ReplaceLast(rStack, RSlotDone(RTop))
  /\ UNCHANGED <<variableCounter, rScopes, rBlocks, rFunc, rPc, rErr, rDecls>>
  /\ UNCHANGED <<labelerVars, tacVars, codegenVars, programVars, parserVars, driverVars, lexerVars,
               machineVars, produceVars>>

\* an absent ForInit.init, For condition or For post: nothing is resolved
ResolveAbsent ==
  /\ RReady
  /\ RNextSlot \in {"init", "expr?"}
  /\ rStack' = ReplaceLast(rStack, RSlotDone(RTop))
  /\ rLast' = RNone
  /\ UNCHANGED <<variableCounter, rScopes, rBlocks, rFunc, rPc, rErr, rDecls>>
  /\ UNCHANGED <<labelerVars, tacVars, codegenVars, programVars, parserVars, driverVars, lexerVars,
               machineVars, produceVars>>

\* the effect of resolveDecleration(decl, scope) on the walk
RDeclaration(decl) ==
  LET i == RTop.scope
      res == resolveDecleration(decl, rScopes[i], variableCounter)
      dup == decl.symbol \in DOMAIN rBlocks[i]
      blocks == IF res.err = "Duplicate" THEN rBlocks
                ELSE [rBlocks EXCEPT ![i] = BlockSet(@, decl.symbol, res.decl.symbol)]
      note == IF decl.expr = Undefined \/ res.err = "Duplicate" THEN RNone
              ELSE RExprNote(decl.expr, [ok |-> res.ok, expr |-> res.decl.expr], blocks)
  IN
  /\ rLast' = [note EXCEPT !.kind = "Declaration", !.name = decl.symbol, !.dup = dup,
                 !.outer = (Visible(rBlocks, i - 1, decl.symbol) # NoSymbol),
                 !.symbol = IF res.ok THEN res.decl.symbol ELSE NoSymbol,
                 !.fresh = res.ok /\ \A k \in 1..Len(rDecls) : rDecls[k].symbol # res.decl.symbol]
  /\ IF res.ok
     THEN /\ rScopes' = [rScopes EXCEPT ![i] = res.scope]
          /\ rBlocks' = blocks
          /\ variableCounter' = res.counter
          /\ rDecls' = Append(rDecls, [func |-> rFunc, symbol |-> res.decl.symbol])
          /\ rStack' = ReplaceLast(rStack, RSlotDone(RTop))
          /\ UNCHANGED <<rPc, rErr>>
     ELSE /\ rPc' = "failed"
          /\ rErr' = res.err
          /\ UNCHANGED <<variableCounter, rScopes, rBlocks, rDecls, rStack>>
  /\ UNCHANGED rFunc
  /\ UNCHANGED <<labelerVars, tacVars, codegenVars, programVars, parserVars, driverVars, lexerVars,
               machineVars, produceVars>>

\* the declaration leaves this.variableCounter within the bound
RDeclFits(decl) == resolveDecleration(decl, RScope, variableCounter).counter <= MaxVars

\* resolveBlock, case "DBlock"
ResolveDeclaration(name, expr) ==
  /\ RReady
  /\ RNextSlot = "items"
  /\ RDeclFits(Declaration(name, expr))
  /\ RDeclaration(Declaration(name, expr))

\* resolveForInit, case "Declaration"
ResolveForInitDeclaration(name, expr) ==
  /\ RReady
  /\ RNextSlot = "init"
  /\ RDeclFits(Declaration(name, expr))
  /\ RDeclaration(Declaration(name, expr))

\* resolveExpression / resolveDecleration returns to the loop of resolveBlock
\* or to the statement that called it
ResolveReturned ==
  /\ rPc = "run"
  /\ rLast.kind # "None"
  /\ rLast' = RNone
  /\ UNCHANGED <<variableCounter, rStack, rScopes, rBlocks, rFunc, rPc, rErr, rDecls>>
  /\ UNCHANGED <<labelerVars, tacVars, codegenVars, programVars, parserVars, driverVars, lexerVars,
               machineVars, produceVars>>

\* resolveStatement, case "Null" / "Continue" / "Break"
ResolveNull ==
  /\ RAtStatement
  /\ rStack' = ReplaceLast(rStack, RSlotDone(RTop))
  /\ rLast' = RNone
  /\ UNCHANGED <<variableCounter, rScopes, rBlocks, rFunc, rPc, rErr, rDecls>>
  /\ UNCHANGED <<labelerVars, tacVars, codegenVars, programVars, parserVars, driverVars, lexerVars,
               machineVars, produceVars>>

\* a statement with children is entered with the Scope object `scope`
ROpen(kind, todo, newScope) ==
  /\ Len(rStack) < MaxNest
  /\ IF newScope
     THEN /\ rScopes' = Append(rScopes, createInnerScope(RScope))
          /\ rBlocks' = Append(rBlocks, EmptyBlock)
          /\ rStack' = Append(ReplaceLast(rStack, RSlotDone(RTop)),
                              RFrame(kind, Len(rScopes) + 1, todo))
     ELSE /\ rStack' = Append(ReplaceLast(rStack, RSlotDone(RTop)),
                              RFrame(kind, RTop.scope, todo))
          /\ UNCHANGED <<rScopes, rBlocks>>
  /\ rLast' = RNone
  /\ UNCHANGED <<variableCounter, rFunc, rPc, rErr, rDecls>>
  /\ UNCHANGED <<labelerVars, tacVars, codegenVars, programVars, parserVars, driverVars, lexerVars,
               machineVars, produceVars>>

\* resolveStatement, case "Compound": the block is resolved in a new inner scope
ResolveCompound == RAtStatement /\ ROpen("Compound", <<"items">>, TRUE)
\* resolveStatement, case "If": condition, then, else with the same scope
ResolveIf == RAtStatement /\ ROpen("If", <<"expr", "stmt", "stmt?">>, FALSE)
\* resolveStatement, case "While": condition, body
ResolveWhile == RAtStatement /\ ROpen("While", <<"expr", "stmt">>, FALSE)
\* resolveStatement, case "DoWhile": body, condition
ResolveDoWhile == RAtStatement /\ ROpen("DoWhile", <<"stmt", "expr">>, FALSE)
\* faulty variant: the For is resolved with the scope of its block
ResolveFor_SameScope == RAtStatement /\ ROpen("For", <<"init", "expr?", "expr?", "stmt">>, FALSE)
\* resolveStatement, case "For": init, condition, post and body in one new inner scope
ResolveFor == RAtStatement /\ ROpen("For", <<"init", "expr?", "expr?", "stmt">>, TRUE)

\* the recursive call returns; the Scope made for the statement is dropped
ResolveStatementReturn ==
  /\ RReady
  /\ Len(rStack) > 1
  /\ RComplete(RTop)
  /\ rStack' = Front(rStack)
  /\ IF ROwnsScope(RTop)
     THEN rScopes' = Front(rScopes) /\ rBlocks' = Front(rBlocks)
     ELSE UNCHANGED <<rScopes, rBlocks>>
  /\ rLast' = [RNone EXCEPT !.closed = IF RTop.kind = "For" THEN rBlocks[RTop.scope]
                                      ELSE EmptyBlock]
  /\ UNCHANGED <<variableCounter, rFunc, rPc, rErr, rDecls>>
  /\ UNCHANGED <<labelerVars, tacVars, codegenVars, programVars, parserVars, driverVars, lexerVars,
               machineVars, produceVars>>

\* resolveVariables: the next function starts with an empty scope
ResolveNextFunction ==
  /\ RReady
  /\ Len(rStack) = 1
  /\ rFunc < MaxFuncs
  /\ rFunc' = rFunc + 1
  /\ rStack' = <<RFrame("Function", 1, <<"items">>)>>
  /\ rScopes' = <<EmptyScope>>
  /\ rBlocks' = <<EmptyBlock>>
  /\ rLast' = RNone
  /\ UNCHANGED <<variableCounter, rPc, rErr, rDecls>>
  /\ UNCHANGED <<labelerVars, tacVars, codegenVars, programVars, parserVars, driverVars, lexerVars,
               machineVars, produceVars>>

\* the last block item returns and resolveVariables returns
ResolveDone ==
  /\ rPc = "run"
  /\ Len(rStack) = 1
  /\ rPc' = "done"
  /\ UNCHANGED <<variableCounter, rStack, rScopes, rBlocks, rFunc, rErr, rDecls, rLast>>
  /\ UNCHANGED <<labelerVars, tacVars, codegenVars, programVars, parserVars, driverVars, lexerVars,
               machineVars, produceVars>>

ROptExprs == RExprs \cup {Undefined}

ResolverNext ==
  \/ \E e \in RExprs : ResolveExpressionStatement(e)
  \/ \E e \in RExprs : ResolveCondition(e)
  \/ \E e \in RExprs : ResolveForInitExpr(e)
  \/ ResolveAbsent
  \/ \E n \in Names, e \in ROptExprs : ResolveDeclaration(n, e)
  \/ \E n \in Names, e \in ROptExprs : ResolveForInitDeclaration(n, e)
  \/ ResolveReturned
  \/ ResolveNull
  \/ ResolveCompound
  \/ ResolveIf
  \/ ResolveWhile
  \/ ResolveDoWhile
  \/ ResolveFor
  \/ ResolveStatementReturn
  \/ ResolveNextFunction
  \/ ResolveDone


\* ====================================================================
\* LoopLabeler
\* ====================================================================
\* A label is the string `loop_<n>`; NoLabel is the unset (undefined) field.
NoLabel == <<>>
LoopKinds == {"While", "DoWhile", "For"}

\* getLoopLabel(isNewLabel): bumps the counter for a new label, and in either
\* case formats the CURRENT value of this.loopLabelCounter.
getLoopLabel(counter, isNewLabel) ==
  LET c == IF isNewLabel THEN counter + 1 ELSE counter
  IN  [counter |-> c, label |-> <<"loop", c>>]

\* A frame of the walk: the statement that is open, the currentLoopId its
\* children are labelled with (0 is `undefined`), the label attached to it
\* (loops only) and how many child statements have been walked.
LFrame(kind, currentLoopId, label) ==
  [kind |-> kind, currentLoopId |-> currentLoopId, label |-> label, visited |-> 0]

\* the statement kinds whose body is a block: any number of children
LIsBlock(f) == f.kind \in {"Function", "Compound"}
\* whether the open statement takes one more child statement
LTakesChild(f) ==
  \/ LIsBlock(f)
  \/ f.kind \in LoopKinds /\ f.visited = 0
  \/ f.kind = "If" /\ f.visited < 2
\* whether the open statement is complete (an If has an optional else)
LComplete(f) ==
  \/ f.kind = "Compound"
  \/ f.kind \in LoopKinds /\ f.visited = 1
  \/ f.kind = "If" /\ f.visited >= 1

LChildDone(f) == IF LIsBlock(f) THEN f ELSE [f EXCEPT !.visited = @ + 1]

\* the label attached to the innermost loop statement that is open
RECURSIVE InnermostLoopLabel(_)
InnermostLoopLabel(stack) ==
  IF stack = <<>> THEN NoLabel
  ELSE IF Last(stack).kind \in LoopKinds THEN Last(stack).label
  ELSE InnermostLoopLabel(Front(stack))

\* what labelStatement did with a statement: its kind, the label it was
\* given, and whether a loop statement was open around it
LNode(kind, label, inLoop) == [kind |-> kind, label |-> label, inLoop |-> inLoop]
LInLoop(stack) == InnermostLoopLabel(stack) # NoLabel

LabelerInit ==
  /\ loopLabelCounter = 0
  /\ lStack = <<LFrame("Function", 0, NoLabel)>>
  /\ lFunc = 1
  /\ lPc = "run"
  /\ lNodes = {}
  /\ lLast = LNode("None", NoLabel, FALSE)

LCanVisit == lPc = "run" /\ lStack # <<>> /\ LTakesChild(Last(lStack))

\* faulty variant: the test is on this.loopLabelCounter, not on currentLoopId
LabelJump_CounterTest(kind) ==
  /\ LET top == Last(lStack) IN
     IF loopLabelCounter = 0
     THEN /\ lPc' = "failed"
          /\ lLast' = LNode(kind, NoLabel, LInLoop(lStack))
          /\ UNCHANGED <<loopLabelCounter, lStack, lFunc, lNodes>>
     ELSE LET g == getLoopLabel(loopLabelCounter, FALSE) IN
          /\ lNodes' = lNodes \cup
               {[label |-> g.label, enclosing |-> InnermostLoopLabel(lStack)]}
          /\ lLast' = LNode(kind, g.label, LInLoop(lStack))
          /\ loopLabelCounter' = g.counter
          /\ lStack' = ReplaceLast(lStack, LChildDone(top))
          /\ UNCHANGED <<lFunc, lPc>>
  /\ UNCHANGED <<resolverVars, tacVars, codegenVars, programVars, parserVars, driverVars, lexerVars,
               machineVars, produceVars>>

\* labelStatement, case "Break" / "Continue"
LabelJump(kind) ==
  /\ LET top == Last(lStack) IN
     IF top.currentLoopId = 0
     THEN \* bail(): the process ends
          /\ lPc' = "failed"
          /\ lLast' = LNode(kind, NoLabel, LInLoop(lStack))
          /\ UNCHANGED <<loopLabelCounter, lStack, lFunc, lNodes>>
     ELSE LET g == getLoopLabel(loopLabelCounter, FALSE) IN
          /\ lNodes' = lNodes \cup
               {[label |-> g.label, enclosing |-> InnermostLoopLabel(lStack)]}
          /\ lLast' = LNode(kind, g.label, LInLoop(lStack))
          /\ loopLabelCounter' = g.counter
          /\ lStack' = ReplaceLast(lStack, LChildDone(top))
          /\ UNCHANGED <<lFunc, lPc>>
  /\ UNCHANGED <<resolverVars, tacVars, codegenVars, programVars, parserVars, driverVars, lexerVars,
               machineVars, produceVars>>

LabelBreak == LCanVisit /\ LabelJump("Break")
LabelContinue == LCanVisit /\ LabelJump("Continue")

\* labelStatement, case "While" / "DoWhile" / "For": a new label, then the
\* body is walked with currentLoopId = this.loopLabelCounter
LabelLoop(kind) ==
  /\ Len(lStack) < MaxDepth
  /\ loopLabelCounter < MaxLoops
  /\ LET g == getLoopLabel(loopLabelCounter, TRUE) IN
     /\ loopLabelCounter' = g.counter
     /\ lStack' = Append(ReplaceLast(lStack, LChildDone(Last(lStack))),
                         LFrame(kind, g.counter, g.label))
     /\ lLast' = LNode(kind, g.label, LInLoop(lStack))
  /\ UNCHANGED <<lFunc, lPc, lNodes>>
  /\ UNCHANGED <<resolverVars, tacVars, codegenVars, programVars, parserVars, driverVars, lexerVars,
               machineVars, produceVars>>

LabelWhile == LCanVisit /\ LabelLoop("While")
LabelDoWhile == LCanVisit /\ LabelLoop("DoWhile")
LabelFor == LCanVisit /\ LabelLoop("For")

\* labelStatement, case "Compound" and case "If": currentLoopId is passed on
LabelNested(kind) ==
  /\ Len(lStack) < MaxDepth
  /\ lStack' = Append(ReplaceLast(lStack, LChildDone(Last(lStack))),
                      LFrame(kind, Last(lStack).currentLoopId, NoLabel))
  /\ lLast' = LNode(kind, NoLabel, LInLoop(lStack))
  /\ UNCHANGED <<loopLabelCounter, lFunc, lPc, lNodes>>
  /\ UNCHANGED <<resolverVars, tacVars, codegenVars, programVars, parserVars, driverVars, lexerVars,
               machineVars, produceVars>>

LabelCompound == LCanVisit /\ LabelNested("Compound")
LabelIf == LCanVisit /\ LabelNested("If")

\* labelBlockItem on a DBlock, and labelStatement on a statement kind without
\* a case (Return, Expression, Null): nothing is labelled
LabelOther ==
  /\ LCanVisit
  /\ lStack' = ReplaceLast(lStack, LChildDone(Last(lStack)))
  /\ lLast' = LNode("Other", NoLabel, LInLoop(lStack))
  /\ UNCHANGED <<loopLabelCounter, lFunc, lPc, lNodes>>
  /\ UNCHANGED <<resolverVars, tacVars, codegenVars, programVars, parserVars, driverVars, lexerVars,
               machineVars, produceVars>>

\* the recursive call returns
LabelReturn ==
  /\ lPc = "run"
  /\ Len(lStack) > 1
  /\ LComplete(Last(lStack))
  /\ lStack' = Front(lStack)
  /\ UNCHANGED <<loopLabelCounter, lFunc, lPc, lNodes, lLast>>
  /\ UNCHANGED <<resolverVars, tacVars, codegenVars, programVars, parserVars, driverVars, lexerVars,
               machineVars, produceVars>>

\* labelLoops: the next function of program.body; labelBlock starts with
\* currentLoopId undefined, the counter is the labeler's
LabelNextFunction ==
  /\ lPc = "run"
  /\ Len(lStack) = 1
  /\ lFunc < MaxFuncs
  /\ lFunc' = lFunc + 1
  /\ lStack' = <<LFrame("Function", 0, NoLabel)>>
  /\ UNCHANGED <<loopLabelCounter, lPc, lNodes, lLast>>
  /\ UNCHANGED <<resolverVars, tacVars, codegenVars, programVars, parserVars, driverVars, lexerVars,
               machineVars, produceVars>>

\* labelLoops returns
LabelDone ==
  /\ lPc = "run"
  /\ Len(lStack) = 1
  /\ lPc' = "done"
  /\ UNCHANGED <<loopLabelCounter, lStack, lFunc, lNodes, lLast>>
  /\ UNCHANGED <<resolverVars, tacVars, codegenVars, programVars, parserVars, driverVars, lexerVars,
               machineVars, produceVars>>

LabelerNext ==
  \/ LabelBreak
  \/ LabelContinue
  \/ LabelWhile
  \/ LabelDoWhile
  \/ LabelFor
  \/ LabelCompound
  \/ LabelIf
  \/ LabelOther
  \/ LabelReturn
  \/ LabelNextFunction
  \/ LabelDone


\* ====================================================================
\* TasGenerator (src/tacky.ts)
\* ====================================================================
ReturnStatement(value) == [kind |-> "Return", value |-> value]
ExpressionStatement(expr) == [kind |-> "Expression", expr |-> expr]
SBlock(statement) == [kind |-> "SBlock", statement |-> statement]
DBlock(declaration) == [kind |-> "DBlock", declaration |-> declaration]
\* Block.blockItems is kept as the sequence itself; an absent `else`,
\* `condition`, `post` or ForInit.init is Undefined, an unset label NoLabel
IfStatement(condition, then, else) ==
  [kind |-> "If", condition |-> condition, then |-> then, else |-> else]
WhileStatement(condition, body) ==
  [kind |-> "While", condition |-> condition, body |-> body, label |-> NoLabel]
DoWhileStatement(body, condition) ==
  [kind |-> "DoWhile", condition |-> condition, body |-> body, label |-> NoLabel]
ForInit(init) == [kind |-> "ForInit", init |-> init]
ForStatement(init, condition, post, body) ==
  [kind |-> "For", init |-> init, condition |-> condition, post |-> post,
   body |-> body, label |-> NoLabel]
Continue == [kind |-> "Continue", label |-> NoLabel]
Break == [kind |-> "Break", label |-> NoLabel]
CompoundStatement(block) == [kind |-> "Compound", block |-> block]
Null == [kind |-> "Null"]

TasConstant(value) == [kind |-> "Constant", value |-> value]
TasVariable(symbol) == [kind |-> "Variable", symbol |-> symbol]
TasLabel(symbol) == [kind |-> "Label", symbol |-> symbol]
TasReturn(value) == [kind |-> "Return", value |-> value]
TasUnary(operator, source, destination) ==
  [kind |-> "UnaryOperation", operator |-> operator, source |-> source,
   destination |-> destination]
TasBinary(operator, source1, source2, destination) ==
  [kind |-> "BinaryOperation", operator |-> operator, source1 |-> source1,
   source2 |-> source2, destination |-> destination]
TasCopy(source, destination) ==
  [kind |-> "Copy", source |-> source, destination |-> destination]
TasJump(label) == [kind |-> "Jump", label |-> label]
TasJumpIfZero(condition, label) ==
  [kind |-> "JumpIfZero", condition |-> condition, label |-> label]
TasJumpIfNotZero(condition, label) ==
  [kind |-> "JumpIfNotZero", condition |-> condition, label |-> label]

\* the fields of a TasGenerator
TasGen(instructions, tempVariableCounter, labelCounter) ==
  [instructions |-> instructions, tempVariableCounter |-> tempVariableCounter,
   labelCounter |-> labelCounter]
NewTasGenerator == TasGen(<<>>, 0, 0)

\* this.instructions.push(...)
TasPush(g, seq) == [g EXCEPT !.instructions = @ \o seq]
\* a call's result: the generator after it and the value it returns
TasOut(g, v) == [g |-> g, v |-> v]

\* makeTempVariable(): `temp.v<n>`, kept as <<"temp", "v", n>>
makeTempVariable(g) ==
  TasOut([g EXCEPT !.tempVariableCounter = @ + 1],
         TasVariable(<<"temp", "v", g.tempVariableCounter>>))

\* faulty variant: this.labelCounter is read but not incremented
makeLabel_NoIncrement(g, prefix) ==
  TasOut(g, TasLabel(<<prefix, g.labelCounter>>))

\* makeLabel(prefix): `<prefix>_<n>`, kept as <<prefix, n>>
makeLabel(g, prefix) ==
  TasOut([g EXCEPT !.labelCounter = @ + 1], TasLabel(<<prefix, g.labelCounter>>))

RECURSIVE emitTackyExpr(_, _)
\* faulty variant: the right operand is evaluated before the jump on the left one
emitTackyLogical_LateJump(expr, g, jump) ==
  LET t1 == makeTempVariable(g)
      t2 == makeTempVariable(t1.g)
      t3 == makeTempVariable(t2.g)
      l1 == makeLabel(t3.g, "end")
      l2 == makeLabel(l1.g, "false")
      result1 == t1.v
      result2 == t2.v
      expressionResult == t3.v
      endLabel == l1.v
      falseLabel == l2.v
      jumpOn(c) == IF jump = "JumpIfZero" THEN TasJumpIfZero(c, falseLabel)
                ELSE TasJumpIfNotZero(c, falseLabel)
      s1 == emitTackyExpr(expr.left, l2.g)
      g1 == TasPush(s1.g, <<TasCopy(s1.v, result1)>>)
      s2 == emitTackyExpr(expr.right, g1)
      g2 == TasPush(s2.g, <<jumpOn(result1), TasCopy(s2.v, result2), jumpOn(result2),
                            TasCopy(TasConstant(1), expressionResult),
                            TasJump(endLabel),
                            falseLabel,
                            TasCopy(TasConstant(0), expressionResult),
                            endLabel>>)
  IN  TasOut(g2, expressionResult)

\* faulty variant: the true branch does not jump over the false branch
emitTackyLogical_NoEndJump(expr, g, jump) ==
  LET t1 == makeTempVariable(g)
      t2 == makeTempVariable(t1.g)
      t3 == makeTempVariable(t2.g)
      l1 == makeLabel(t3.g, "end")
      l2 == makeLabel(l1.g, "false")
      result1 == t1.v
      result2 == t2.v
      expressionResult == t3.v
      endLabel == l1.v
      falseLabel == l2.v
      jumpOn(c) == IF jump = "JumpIfZero" THEN TasJumpIfZero(c, falseLabel)
                ELSE TasJumpIfNotZero(c, falseLabel)
      s1 == emitTackyExpr(expr.left, l2.g)
      g1 == TasPush(s1.g, <<TasCopy(s1.v, result1), jumpOn(result1)>>)
      s2 == emitTackyExpr(expr.right, g1)
      g2 == TasPush(s2.g, <<TasCopy(s2.v, result2), jumpOn(result2),
                            TasCopy(TasConstant(1), expressionResult),
                            falseLabel,
                            TasCopy(TasConstant(0), expressionResult),
                            endLabel>>)
  IN  TasOut(g2, expressionResult)

\* the branch of emitTackyExpr for && (jump = "JumpIfZero") and for ||
\* (jump = "JumpIfNotZero"): the two branches differ in the jump only
emitTackyLogical(expr, g, jump) ==
  LET t1 == makeTempVariable(g)
      t2 == makeTempVariable(t1.g)
      t3 == makeTempVariable(t2.g)
      l1 == makeLabel(t3.g, "end")
      l2 == makeLabel(l1.g, "false")
      result1 == t1.v
      result2 == t2.v
      expressionResult == t3.v
      endLabel == l1.v
      falseLabel == l2.v
      jumpOn(c) == IF jump = "JumpIfZero" THEN TasJumpIfZero(c, falseLabel)
                ELSE TasJumpIfNotZero(c, falseLabel)
      s1 == emitTackyExpr(expr.left, l2.g)
      g1 == TasPush(s1.g, <<TasCopy(s1.v, result1), jumpOn(result1)>>)
      s2 == emitTackyExpr(expr.right, g1)
      g2 == TasPush(s2.g, <<TasCopy(s2.v, result2), jumpOn(result2),
                            TasCopy(TasConstant(1), expressionResult),
                            TasJump(endLabel),
                            falseLabel,
                            TasCopy(TasConstant(0), expressionResult),
                            endLabel>>)
  IN  TasOut(g2, expressionResult)

\* faulty variant: the true arm does not jump over the false arm
emitTackyConditional_NoJump(expr, g) ==
  LET t1 == makeTempVariable(g)
      t2 == makeTempVariable(t1.g)
      t3 == makeTempVariable(t2.g)
      t4 == makeTempVariable(t3.g)
      l1 == makeLabel(t4.g, "else")
      l2 == makeLabel(l1.g, "end")
      condResult == t1.v
      v1 == t2.v
      v2 == t3.v
      result == t4.v
      elseLabel == l1.v
      endLabel == l2.v
  IN
  Only({TasOut(TasPush(ifFalse.g, <<TasCopy(ifFalse.v, v2), TasCopy(v2, result),
                                    endLabel>>), result)
        : ifFalse \in UNION
          {{emitTackyExpr(expr.ifFalse,
                          TasPush(ifTrue.g, <<TasCopy(ifTrue.v, v1), TasCopy(v1, result),
                                              elseLabel>>))}
           : ifTrue \in UNION
             {{emitTackyExpr(expr.ifTrue,
                             TasPush(cond.g, <<TasCopy(cond.v, condResult),
                                               TasJumpIfZero(condResult, elseLabel)>>))}
              : cond \in {emitTackyExpr(expr.condition, l2.g)}}}})

\* emitTackyExpr, case "Conditional"
emitTackyConditional(expr, g) ==
  LET t1 == makeTempVariable(g)
      t2 == makeTempVariable(t1.g)
      t3 == makeTempVariable(t2.g)
      t4 == makeTempVariable(t3.g)
      l1 == makeLabel(t4.g, "else")
      l2 == makeLabel(l1.g, "end")
      condResult == t1.v
      v1 == t2.v
      v2 == t3.v
      result == t4.v
      elseLabel == l1.v
      endLabel == l2.v
  IN
  Only({TasOut(TasPush(ifFalse.g, <<TasCopy(ifFalse.v, v2), TasCopy(v2, result),
                                    endLabel>>), result)
        : ifFalse \in UNION
          {{emitTackyExpr(expr.ifFalse,
                          TasPush(ifTrue.g, <<TasCopy(ifTrue.v, v1), TasCopy(v1, result),
                                              TasJump(endLabel), elseLabel>>))}
           : ifTrue \in UNION
             {{emitTackyExpr(expr.ifTrue,
                             TasPush(cond.g, <<TasCopy(cond.v, condResult),
                                               TasJumpIfZero(condResult, elseLabel)>>))}
              : cond \in {emitTackyExpr(expr.condition, l2.g)}}}})

emitTackyExpr(expr, g) ==
  CASE expr.kind = "NumLiteral" -> TasOut(g, TasConstant(expr.value))
    [] expr.kind = "Variable" -> TasOut(g, TasVariable(expr.symbol))
    [] expr.kind = "Assignment" ->
         LET rhs == emitTackyExpr(expr.right, g)
             variable == TasVariable(expr.left.symbol)
         IN  TasOut(TasPush(rhs.g, <<TasCopy(rhs.v, variable)>>), variable)
    [] expr.kind = "UnaryExpr" ->
         LET source == emitTackyExpr(expr.expr, g)
             dest == makeTempVariable(source.g)
         IN  TasOut(TasPush(dest.g, <<TasUnary(expr.operator, source.v, dest.v)>>), dest.v)
    [] expr.kind = "BinaryExpr" /\ expr.operator = "&&" ->
         emitTackyLogical(expr, g, "JumpIfZero")
    [] expr.kind = "BinaryExpr" /\ expr.operator = "||" ->
         emitTackyLogical(expr, g, "JumpIfNotZero")
    [] expr.kind = "BinaryExpr" /\ expr.operator \notin {"&&", "||"} ->
         LET source1 == emitTackyExpr(expr.left, g)
             source2 == emitTackyExpr(expr.right, source1.g)
             dest == makeTempVariable(source2.g)
         IN  TasOut(TasPush(dest.g, <<TasBinary(expr.operator, source1.v, source2.v, dest.v)>>),
                    dest.v)
    [] expr.kind = "Conditional" -> emitTackyConditional(expr, g)

\* The parts of the TAC that `return <l op r>;` (op && or ||) is compiled to
\* by a new generator: the temporary that takes l's value, the label made
\* for the false branch, the result temporary and the end label, the place
\* of the jump on l's value, and the places first..last of the instructions
\* the recursive call for r emits.
LogicalParts(expr) ==
  LET t1 == makeTempVariable(NewTasGenerator)
      t2 == makeTempVariable(t1.g)
      t3 == makeTempVariable(t2.g)
      l1 == makeLabel(t3.g, "end")
      l2 == makeLabel(l1.g, "false")
      s1 == emitTackyExpr(expr.left, l2.g)
      n1 == Len(s1.g.instructions)
      s2 == emitTackyExpr(expr.right, TasPush(s1.g, <<l1.v, l1.v>>))
  IN  [result1 |-> t1.v, result2 |-> t2.v, expressionResult |-> t3.v,
       endLabel |-> l1.v, falseLabel |-> l2.v,
       jump |-> n1 + 2, first |-> n1 + 3, last |-> Len(s2.g.instructions)]

\* The parts of the TAC that `return <c ? a : b>;` is compiled to by a new
\* generator: the temporaries and labels made, the place of the jump on c's
\* value, the places of the instructions of each arm (the arm's evaluation
\* and the two copies after it) and the places of the two labels.
ConditionalParts(expr) ==
  LET t1 == makeTempVariable(NewTasGenerator)
      t2 == makeTempVariable(t1.g)
      t3 == makeTempVariable(t2.g)
      t4 == makeTempVariable(t3.g)
      l1 == makeLabel(t4.g, "else")
      l2 == makeLabel(l1.g, "end")
  IN
  Only({[condResult |-> t1.v, result |-> t4.v, elseLabel |-> l1.v, endLabel |-> l2.v,
         jump |-> n[1] + 2, trueFirst |-> n[1] + 3, trueLast |-> n[2] + 2,
         else |-> n[2] + 4, falseFirst |-> n[2] + 5, falseLast |-> n[3] + 2,
         end |-> n[3] + 3]
        : n \in UNION
          {{<<Len(c.g.instructions), Len(a.g.instructions),
              Len(emitTackyExpr(expr.ifFalse,
                                TasPush(a.g, <<l1.v, l1.v, l1.v, l1.v>>)).g.instructions)>>
            : a \in {emitTackyExpr(expr.ifTrue, TasPush(c.g, <<l1.v, l1.v>>))}}
           : c \in {emitTackyExpr(expr.condition, l2.g)}}})

\* the expression holds a || at some depth
RECURSIVE HasLogicalOr(_)
HasLogicalOr(expr) ==
  CASE expr.kind = "BinaryExpr" ->
         expr.operator = "||" \/ HasLogicalOr(expr.left) \/ HasLogicalOr(expr.right)
    [] expr.kind = "UnaryExpr" -> HasLogicalOr(expr.expr)
    [] expr.kind = "Assignment" -> HasLogicalOr(expr.right)
    [] expr.kind = "Conditional" ->
         HasLogicalOr(expr.condition) \/ HasLogicalOr(expr.ifTrue)
           \/ HasLogicalOr(expr.ifFalse)
    [] OTHER -> FALSE

\* emitTackyDeclaration: a Copy into the declared symbol, if there is an initializer
emitTackyDeclaration(declaration, g) ==
  IF declaration.expr = Undefined THEN g
  ELSE LET value == emitTackyExpr(declaration.expr, g)
       IN  TasPush(value.g, <<TasCopy(value.v, TasVariable(declaration.symbol))>>)

\* ------------------------------------------- LoopLabeler on a whole tree
\* labelStatement(statement, currentLoopId) with this.loopLabelCounter =
\* counter, as a function: the statement with its labels set and the counter
\* afterwards, or ok = FALSE where bail ended the process.  currentLoopId 0
\* is `undefined`.
Labelled(statement, counter) == [ok |-> TRUE, statement |-> statement, counter |-> counter]
LabelBail(statement, counter) == [ok |-> FALSE, statement |-> statement, counter |-> counter]

RECURSIVE labelStatement(_, _, _)
RECURSIVE labelBlock(_, _, _)
labelStatement(statement, currentLoopId, counter) ==
  CASE statement.kind = "Compound" ->
         Only({[b EXCEPT !.statement = [statement EXCEPT !.block = b.statement]]
               : b \in {labelBlock(statement.block, currentLoopId, counter)}})
    [] statement.kind \in {"Break", "Continue"} ->
         IF currentLoopId = 0 THEN LabelBail(statement, counter)
         ELSE LET g == getLoopLabel(counter, FALSE)
              IN  Labelled([statement EXCEPT !.label = g.label], g.counter)
    [] statement.kind \in {"While", "DoWhile", "For"} ->
         LET g == getLoopLabel(counter, TRUE) IN
         Only({[body EXCEPT !.statement =
                  [statement EXCEPT !.label = g.label, !.body = body.statement]]
               : body \in {labelStatement(statement.body, g.counter, g.counter)}})
    [] statement.kind = "If" ->
         Only({IF ~then.ok \/ statement.else = Undefined
               THEN [then EXCEPT !.statement = [statement EXCEPT !.then = then.statement]]
               ELSE Only({[else EXCEPT !.statement =
                             [statement EXCEPT !.then = then.statement,
                                               !.else = else.statement]]
                          : else \in {labelStatement(statement.else, currentLoopId,
                                                     then.counter)}})
               : then \in {labelStatement(statement.then, currentLoopId, counter)}})
    [] OTHER -> Labelled(statement, counter)

\* labelBlockItem: only the statement of an SBlock is labelled
labelBlockItem(item, currentLoopId, counter) ==
  IF item.kind = "SBlock"
  THEN Only({[st EXCEPT !.statement = [item EXCEPT !.statement = st.statement]]
             : st \in {labelStatement(item.statement, currentLoopId, counter)}})
  ELSE Labelled(item, counter)

\* labelBlock: the block items in order, until one fails
labelBlock(block, currentLoopId, counter) ==
  IF block = <<>> THEN Labelled(<<>>, counter)
  ELSE Only({IF ~head.ok THEN LabelBail(block, head.counter)
             ELSE Only({[rest EXCEPT !.statement = <<head.statement>> \o rest.statement]
                        : rest \in {labelBlock(Tail(block), currentLoopId, head.counter)}})
             : head \in {labelBlockItem(Head(block), currentLoopId, counter)}})

\* emitTackyForInit: a declaration, an expression (its value is dropped) or nothing
emitTackyForInit(init, g) ==
  IF init.init.kind = "Declaration" THEN emitTackyDeclaration(init.init, g)
  ELSE IF init.init # Undefined THEN emitTackyExpr(init.init, g).g
  ELSE g

\* `${label}_break` etc.: the loop's label with a suffix
LoopLabel(label, suffix) == TasLabel(label \o <<suffix>>)

RECURSIVE emitTackyStatement(_, _)
RECURSIVE emitTackyBlock(_, _)
\* emitTackyStatement: every statement kind the parser builds has a case
emitTackyStatement(statement, g) ==
  CASE statement.kind = "Return" ->
         Only({TasPush(returnValue.g, <<TasReturn(returnValue.v)>>)
               : returnValue \in {emitTackyExpr(statement.value, g)}})
    [] statement.kind = "Compound" -> emitTackyBlock(statement.block, g)
    [] statement.kind = "If" ->
         LET t == makeTempVariable(g)
             l1 == makeLabel(t.g, "end")
             l2 == makeLabel(l1.g, "else")
             condResult == t.v
             endLabel == l1.v
             elseLabel == l2.v
         IN
         Only({TasPush(g3, <<endLabel>>) : g3 \in
           {Only({IF statement.else # Undefined
                  THEN emitTackyStatement(statement.else,
                         TasPush(g2, <<TasJump(endLabel), elseLabel>>))
                  ELSE g2 : g2 \in
              {Only({emitTackyStatement(statement.then,
                       TasPush(cond.g,
                         <<TasCopy(cond.v, condResult),
                           TasJumpIfZero(condResult,
                             IF statement.else # Undefined THEN elseLabel
                             ELSE endLabel)>>))
                     : cond \in {emitTackyExpr(statement.condition, l2.g)}})}})}})
    [] statement.kind = "While" ->
         LET breakLabel == LoopLabel(statement.label, "break")
             continueLabel == LoopLabel(statement.label, "continue")
         IN
         Only({TasPush(g2, <<TasJump(continueLabel), breakLabel>>) : g2 \in
           {Only({LET t == makeTempVariable(cond.g)
                      condResult == t.v
                  IN  emitTackyStatement(statement.body,
                        TasPush(t.g, <<TasCopy(cond.v, condResult),
                                       TasJumpIfZero(condResult, breakLabel)>>))
                  : cond \in {emitTackyExpr(statement.condition,
                                            TasPush(g, <<continueLabel>>))}})}})
    [] statement.kind = "DoWhile" ->
         LET startLabel == LoopLabel(statement.label, "start")
             breakLabel == LoopLabel(statement.label, "break")
             continueLabel == LoopLabel(statement.label, "continue")
         IN
         Only({LET t == makeTempVariable(cond.g)
                   condResult == t.v
               IN  TasPush(t.g, <<TasCopy(cond.v, condResult),
                                  TasJumpIfNotZero(condResult, startLabel),
                                  breakLabel>>)
               : cond \in
           {Only({emitTackyExpr(statement.condition, TasPush(g1, <<continueLabel>>))
                  : g1 \in {emitTackyStatement(statement.body,
                                               TasPush(g, <<startLabel>>))}})}})
    [] statement.kind = "For" ->
         LET startLabel == LoopLabel(statement.label, "start")
             breakLabel == LoopLabel(statement.label, "break")
             continueLabel == LoopLabel(statement.label, "continue")
         IN
         Only({TasPush(g4, <<TasJump(startLabel), breakLabel>>) : g4 \in
           {Only({IF statement.post # Undefined
                  THEN emitTackyExpr(statement.post, TasPush(g3, <<continueLabel>>)).g
                  ELSE TasPush(g3, <<continueLabel>>) : g3 \in
              {Only({emitTackyStatement(statement.body, g2) : g2 \in
                 {Only({IF statement.condition # Undefined
                        THEN Only({LET t == makeTempVariable(cond.g)
                                       condResult == t.v
                                   IN  TasPush(t.g, <<TasCopy(cond.v, condResult),
                                                      TasJumpIfZero(condResult, breakLabel)>>)
                                   : cond \in {emitTackyExpr(statement.condition,
                                                  TasPush(g1, <<startLabel>>))}})
                        ELSE TasPush(g1, <<startLabel>>)
                        : g1 \in {emitTackyForInit(statement.init, g)}})}})}})}})
    [] statement.kind = "Break" ->
         TasPush(g, <<TasJump(LoopLabel(statement.label, "break"))>>)
    [] statement.kind = "Continue" ->
         TasPush(g, <<TasJump(LoopLabel(statement.label, "continue"))>>)
    [] statement.kind = "Expression" -> emitTackyExpr(statement.expr, g).g
    [] statement.kind \in {"UnaryExpr", "BinaryExpr"} -> emitTackyExpr(statement, g).g
    [] statement.kind = "Null" -> g

emitTackyBlockItem(block, g) ==
  CASE block.kind = "DBlock" -> emitTackyDeclaration(block.declaration, g)
    [] block.kind = "SBlock" -> emitTackyStatement(block.statement, g)

\* emitTackyBlock: the block items in order
emitTackyBlock(block, g) ==
  IF block = <<>> THEN g
  ELSE Only({emitTackyBlock(Tail(block), g1) : g1 \in {emitTackyBlockItem(Head(block), g)}})

\* ------------------------------------------------ the emitted TAC, run
\* The expressions compiled: resolved variables, constants, and every
\* expression kind over them; && and || also over composite operands.
TVarA == Variable(<<"var", "a", "renamed", 0>>)
TVarB == Variable(<<"var", "b", "renamed", 1>>)
TVars == {TVarA, TVarB}
TAtoms == {NumLiteral(0), NumLiteral(2)} \cup TVars
TOperands ==
  TAtoms
  \cup {UnaryExpr("!", TVarA), BinaryExpr("+", TVarA, TVarB), Assignment(TVarB, NumLiteral(2)),
        BinaryExpr("||", TVarA, TVarB), BinaryExpr("&&", TVarA, TVarB)}
TExprs ==
  TAtoms
  \cup {UnaryExpr(op, TVarA) : op \in {"-", "~", "!"}}
  \cup {BinaryExpr(op, l, r) : op \in {"+", "-", "*", "==", "!=", "<", "<=", ">", ">="},
                               l \in {TVarA, NumLiteral(2)}, r \in {TVarB, NumLiteral(2)}}
  \cup {BinaryExpr(op, l, r) : op \in {"&&", "||"}, l \in TOperands, r \in TOperands}
  \cup {Assignment(TVarA, r) : r \in TOperands}
  \cup {ConditionalExpr(c, TVarB, f) : c \in TAtoms, f \in TAtoms}
  \cup {ConditionalExpr(TVarA, ConditionalExpr(TVarB, NumLiteral(0), NumLiteral(2)),
                         Assignment(TVarB, NumLiteral(2))),
        ConditionalExpr(ConditionalExpr(TVarA, NumLiteral(0), TVarB),
                        Assignment(TVarA, NumLiteral(2)), Assignment(TVarB, NumLiteral(0)))}
TValues == 0..MaxValue

EnvSet(env, symbol, value) ==
  [k \in DOMAIN env \cup {symbol} |-> IF k = symbol THEN value ELSE env[k]]
\* the value of a TasValue
TasValueOf(v, env) == IF v.kind = "Constant" THEN v.value ELSE env[v.symbol]
Bool(b) == IF b THEN 1 ELSE 0
TasUnaryValue(operator, x) ==
  CASE operator = "-" -> 0 - x
    [] operator = "~" -> 0 - x - 1
    [] operator = "!" -> Bool(x = 0)
TasBinaryValue(operator, x, y) ==
  CASE operator = "+" -> x + y
    [] operator = "-" -> x - y
    [] operator = "*" -> x * y
    [] operator = "==" -> Bool(x = y)
    [] operator = "!=" -> Bool(x # y)
    [] operator = "<" -> Bool(x < y)
    [] operator = "<=" -> Bool(x <= y)
    [] operator = ">" -> Bool(x > y)
    [] operator = ">=" -> Bool(x >= y)
\* the places of a label in the instruction list
LabelPlaces(code, label) == {i \in 1..Len(code) : code[i] = label}

\* the value of an expression in C, and the variables after it: && and ||
\* evaluate the right operand only when the left one does not decide
RECURSIVE CEval(_, _)
CEval(expr, env) ==
  CASE expr.kind = "NumLiteral" -> [v |-> expr.value, env |-> env]
    [] expr.kind = "Variable" -> [v |-> env[expr.symbol], env |-> env]
    [] expr.kind = "Assignment" ->
         LET r == CEval(expr.right, env)
         IN  [v |-> r.v, env |-> EnvSet(r.env, expr.left.symbol, r.v)]
    [] expr.kind = "UnaryExpr" ->
         LET e == CEval(expr.expr, env)
         IN  [v |-> TasUnaryValue(expr.operator, e.v), env |-> e.env]
    [] expr.kind = "BinaryExpr" /\ expr.operator = "&&" ->
         LET l == CEval(expr.left, env) IN
         IF l.v = 0 THEN [v |-> 0, env |-> l.env]
         ELSE LET r == CEval(expr.right, l.env) IN [v |-> Bool(r.v # 0), env |-> r.env]
    [] expr.kind = "BinaryExpr" /\ expr.operator = "||" ->
         LET l == CEval(expr.left, env) IN
         IF l.v # 0 THEN [v |-> 1, env |-> l.env]
         ELSE LET r == CEval(expr.right, l.env) IN [v |-> Bool(r.v # 0), env |-> r.env]
    [] expr.kind = "BinaryExpr" /\ expr.operator \notin {"&&", "||"} ->
         LET l == CEval(expr.left, env)
             r == CEval(expr.right, l.env)
         IN  [v |-> TasBinaryValue(expr.operator, l.v, r.v), env |-> r.env]
    [] expr.kind = "Conditional" ->
         LET c == CEval(expr.condition, env) IN
         IF c.v # 0 THEN CEval(expr.ifTrue, c.env) ELSE CEval(expr.ifFalse, c.env)

TacInit ==
  /\ tExpr = Undefined
  /\ tCode = <<>>
  /\ tIn = <<>>
  /\ tEnv = <<>>
  /\ tIp = 1
  /\ tPc = "ast"
  /\ tRet = 0
  /\ tWrites = 0

\* generateFunction on a body `return <expr>;`, the variables holding a, b
GenerateTas(expr, a, b) ==
  /\ tPc = "ast"
  /\ tExpr' = expr
  /\ tCode' = emitTackyBlockItem(SBlock(ReturnStatement(expr)), NewTasGenerator).instructions
  /\ tIn' = EnvSet(EnvSet(<<>>, TVarA.symbol, a), TVarB.symbol, b)
  /\ tEnv' = tIn'
  /\ tPc' = "exec"
  /\ UNCHANGED <<tIp, tRet, tWrites>>
  /\ UNCHANGED <<labelerVars, resolverVars, codegenVars, programVars, parserVars, driverVars, lexerVars,
               machineVars, produceVars>>

TacAt(kind) == tPc = "exec" /\ tIp <= Len(tCode) /\ tCode[tIp].kind = kind
\* the instruction at tIp writes the variable the function's Return returns
WritesResult ==
  /\ tCode[tIp].kind \in {"Copy", "UnaryOperation", "BinaryOperation"}
  /\ tCode[tIp].destination = tCode[Len(tCode)].value
TacStep(env, ip) ==
  /\ tEnv' = env
  /\ tIp' = ip
  /\ tWrites' = IF WritesResult THEN tWrites + 1 ELSE tWrites
  /\ UNCHANGED <<tExpr, tCode, tIn, tPc, tRet>>
  /\ UNCHANGED <<labelerVars, resolverVars, codegenVars, programVars, parserVars, driverVars, lexerVars,
               machineVars, produceVars>>

ExecCopy ==
  /\ TacAt("Copy")
  /\ LET ins == tCode[tIp] IN
     TacStep(EnvSet(tEnv, ins.destination.symbol, TasValueOf(ins.source, tEnv)), tIp + 1)

ExecUnary ==
  /\ TacAt("UnaryOperation")
  /\ LET ins == tCode[tIp] IN
     TacStep(EnvSet(tEnv, ins.destination.symbol,
                    TasUnaryValue(ins.operator, TasValueOf(ins.source, tEnv))), tIp + 1)

ExecBinary ==
  /\ TacAt("BinaryOperation")
  /\ LET ins == tCode[tIp] IN
     TacStep(EnvSet(tEnv, ins.destination.symbol,
                    TasBinaryValue(ins.operator, TasValueOf(ins.source1, tEnv),
                                   TasValueOf(ins.source2, tEnv))), tIp + 1)

ExecJump ==
  /\ TacAt("Jump")
  /\ \E i \in LabelPlaces(tCode, tCode[tIp].label) : TacStep(tEnv, i)

ExecJumpIfZero ==
  /\ TacAt("JumpIfZero")
  /\ IF TasValueOf(tCode[tIp].condition, tEnv) = 0
     THEN \E i \in LabelPlaces(tCode, tCode[tIp].label) : TacStep(tEnv, i)
     ELSE TacStep(tEnv, tIp + 1)

ExecJumpIfNotZero ==
  /\ TacAt("JumpIfNotZero")
  /\ IF TasValueOf(tCode[tIp].condition, tEnv) # 0
     THEN \E i \in LabelPlaces(tCode, tCode[tIp].label) : TacStep(tEnv, i)
     ELSE TacStep(tEnv, tIp + 1)

ExecLabel ==
  /\ TacAt("Label")
  /\ TacStep(tEnv, tIp + 1)

ExecReturn ==
  /\ TacAt("Return")
  /\ tRet' = TasValueOf(tCode[tIp].value, tEnv)
  /\ tPc' = "returned"
  /\ UNCHANGED <<tExpr, tCode, tIn, tEnv, tIp, tWrites>>
  /\ UNCHANGED <<labelerVars, resolverVars, codegenVars, programVars, parserVars, driverVars, lexerVars,
               machineVars, produceVars>>

TacNext ==
  \/ \E expr \in TExprs, a \in TValues, b \in TValues : GenerateTas(expr, a, b)
  \/ ExecCopy
  \/ ExecUnary
  \/ ExecBinary
  \/ ExecJump
  \/ ExecJumpIfZero
  \/ ExecJumpIfNotZero
  \/ ExecLabel
  \/ ExecReturn

\* ====================================================================
\* Code generation (src/unnamed/part_007)
\* ====================================================================
Imm(value) == [kind |-> "Imm", value |-> value]
Reg(register) == [kind |-> "Reg", register |-> register]
PseudoReg(symbol) == [kind |-> "PseudoReg", symbol |-> symbol]
Stack(value) == [kind |-> "Stack", value |-> value]
\* enum Register
AX == "eax"
R10 == "r10d"
DX == "edx"
R11 == "r11d"

Ret == [kind |-> "Ret"]
Mov(source, destination) == [kind |-> "Mov", source |-> source, destination |-> destination]
UnaryOperation(operator, operand) ==
  [kind |-> "UnaryOperation", operator |-> operator, operand |-> operand]
BinaryOperation(operator, operand1, operand2) ==
  [kind |-> "BinaryOperation", operator |-> operator, operand1 |-> operand1,
   operand2 |-> operand2]
AllocateStack(value) == [kind |-> "AllocateStack", value |-> value]
Idiv(operand) == [kind |-> "Idiv", operand |-> operand]
Cdq == [kind |-> "Cdq"]
Label(symbol) == [kind |-> "Label", symbol |-> symbol]
Jmp(label) == [kind |-> "Jmp", label |-> label]
JmpCC(condition, label) == [kind |-> "JmpCC", condition |-> condition, label |-> label]
SetCC(condition, operand) == [kind |-> "SetCC", condition |-> condition, operand |-> operand]
Cmp(a, b) == [kind |-> "Cmp", a |-> a, b |-> b]

getOperand(tasValue) ==
  CASE tasValue.kind = "Constant" -> Imm(tasValue.value)
    [] tasValue.kind = "Variable" -> PseudoReg(tasValue.symbol)

\* faulty variant: `<` and `>` take each other's flag
getComparisonFlags_Swapped(ins) ==
  CASE ins.operator = "==" -> "e"
    [] ins.operator = "!=" -> "ne"
    [] ins.operator = "<" -> "g"
    [] ins.operator = "<=" -> "le"
    [] ins.operator = ">" -> "l"
    [] ins.operator = ">=" -> "ge"
    [] OTHER -> ""

\* getComparisonFlags: the flag of a relational operator, "" (undefined) otherwise
getComparisonFlags(ins) ==
  CASE ins.operator = "==" -> "e"
    [] ins.operator = "!=" -> "ne"
    [] ins.operator = "<" -> "l"
    [] ins.operator = "<=" -> "le"
    [] ins.operator = ">" -> "g"
    [] ins.operator = ">=" -> "ge"
    [] OTHER -> ""

handleComplexBinary(ins) ==
  CASE ins.operator = "/" ->
         <<Mov(getOperand(ins.source1), Reg(AX)), Cdq, Idiv(getOperand(ins.source2)),
           Mov(Reg(AX), getOperand(ins.destination))>>
    [] ins.operator = "%" ->
         <<Mov(getOperand(ins.source1), Reg(AX)), Cdq, Idiv(getOperand(ins.source2)),
           Mov(Reg(DX), getOperand(ins.destination))>>

\* the body of generateFunction's loop: the instructions pushed for one
\* TAC instruction
generateInstruction(ins) ==
  CASE ins.kind = "UnaryOperation" /\ ins.operator = "!" ->
         <<Cmp(Imm(0), getOperand(ins.source)),
           Mov(Imm(0), getOperand(ins.destination)),
           SetCC("e", getOperand(ins.destination))>>
    [] ins.kind = "UnaryOperation" /\ ins.operator # "!" ->
         <<Mov(getOperand(ins.source), getOperand(ins.destination)),
           UnaryOperation(ins.operator, getOperand(ins.destination))>>
    [] ins.kind = "BinaryOperation" /\ ins.operator \in {"/", "%"} ->
         handleComplexBinary(ins)
    [] ins.kind = "BinaryOperation" /\ ins.operator \notin {"/", "%"} ->
         LET comparisonFlags == getComparisonFlags(ins) IN
         IF comparisonFlags # ""
         THEN <<Cmp(getOperand(ins.source2), getOperand(ins.source1)),
                Mov(Imm(0), getOperand(ins.destination)),
                SetCC(comparisonFlags, getOperand(ins.destination))>>
         ELSE <<Mov(getOperand(ins.source1), getOperand(ins.destination)),
                BinaryOperation(ins.operator, getOperand(ins.source2),
                                getOperand(ins.destination))>>
    [] ins.kind = "Jump" -> <<Jmp(ins.label.symbol)>>
    [] ins.kind = "JumpIfZero" ->
         <<Cmp(Imm(0), getOperand(ins.condition)), JmpCC("e", ins.label.symbol)>>
    [] ins.kind = "JumpIfNotZero" ->
         <<Cmp(Imm(0), getOperand(ins.condition)), JmpCC("ne", ins.label.symbol)>>
    [] ins.kind = "Label" -> <<Label(ins.symbol)>>
    [] ins.kind = "Copy" -> <<Mov(getOperand(ins.source), getOperand(ins.destination))>>
    [] ins.kind = "Return" -> <<Mov(getOperand(ins.value), Reg(AX)), Ret>>

\* pass A
RECURSIVE generateFunction(_)
generateFunction(instructions) ==
  IF instructions = <<>> THEN <<>>
  ELSE generateInstruction(Head(instructions)) \o generateFunction(Tail(instructions))

\* symbols.indexOf(symbol), counted from 0
IndexOf(symbols, symbol) == (CHOOSE i \in 1..Len(symbols) : symbols[i] = symbol) - 1

\* faulty variant: the offsets grow upwards from the frame base
getStackOffset_Positive(pseudoReg, symbols) ==
  LET symbol == pseudoReg.symbol IN
  IF \A i \in 1..Len(symbols) : symbols[i] # symbol
  THEN LET pushed == Append(symbols, symbol)
       IN  [symbols |-> pushed, offset |-> (Len(pushed) - 1) * 4]
  ELSE [symbols |-> symbols, offset |-> IndexOf(symbols, symbol) * 4]

\* getStackOffset: the offset, and `symbols` after the call
getStackOffset(pseudoReg, symbols) ==
  LET symbol == pseudoReg.symbol IN
  IF \A i \in 1..Len(symbols) : symbols[i] # symbol
  THEN LET pushed == Append(symbols, symbol)
       IN  [symbols |-> pushed, offset |-> (Len(pushed) - 1) * (-4)]
  ELSE [symbols |-> symbols, offset |-> IndexOf(symbols, symbol) * (-4)]

Max(x, y) == IF x >= y THEN x ELSE y

\* the locals of replacePseudoregisters
PassB(symbols, stackSize) == [symbols |-> symbols, stackSize |-> stackSize]

\* what replacePseudoregisters does with one operand field: a PseudoReg
\* becomes a Stack operand and stackSize follows; st is the locals before
replaceOperand(operand, st) ==
  IF operand.kind = "PseudoReg"
  THEN LET o == getStackOffset(operand, st.symbols)
       IN  [operand |-> Stack(o.offset),
            st |-> PassB(o.symbols, Max(st.stackSize, -o.offset))]
  ELSE [operand |-> operand, st |-> st]

\* the body of replacePseudoregisters' loop for one instruction
replaceInstruction(ins, st) ==
  CASE ins.kind \in {"UnaryOperation", "Idiv", "SetCC"} ->
         LET o == replaceOperand(ins.operand, st)
         IN  [ins |-> [ins EXCEPT !.operand = o.operand], st |-> o.st]
    [] ins.kind = "BinaryOperation" ->
         LET o1 == replaceOperand(ins.operand1, st)
             o2 == replaceOperand(ins.operand2, o1.st)
         IN  [ins |-> [ins EXCEPT !.operand1 = o1.operand, !.operand2 = o2.operand],
              st |-> o2.st]
    [] ins.kind = "Mov" ->
         LET o1 == replaceOperand(ins.source, st)
             o2 == replaceOperand(ins.destination, o1.st)
         IN  [ins |-> [ins EXCEPT !.source = o1.operand, !.destination = o2.operand],
              st |-> o2.st]
    [] ins.kind = "Cmp" ->
         LET o1 == replaceOperand(ins.a, st)
             o2 == replaceOperand(ins.b, o1.st)
         IN  [ins |-> [ins EXCEPT !.a = o1.operand, !.b = o2.operand], st |-> o2.st]
    [] ins.kind \in {"AllocateStack", "Jmp", "JmpCC", "Label", "Cdq", "Ret"} ->
         [ins |-> ins, st |-> st]

RECURSIVE replaceLoop(_, _, _)
replaceLoop(instructions, fixedInstructions, st) ==
  IF instructions = <<>> THEN [fixedInstructions |-> fixedInstructions, st |-> st]
  ELSE LET r == replaceInstruction(Head(instructions), st)
       IN  replaceLoop(Tail(instructions), Append(fixedInstructions, r.ins), r.st)

\* pass B
replacePseudoregisters(instructions) ==
  LET r == replaceLoop(instructions, <<>>, PassB(<<>>, 0)) IN
  IF r.st.stackSize > 0
  THEN <<AllocateStack(r.st.stackSize)>> \o r.fixedInstructions
  ELSE r.fixedInstructions

\* faulty variant: a move between two stack slots passes as valid
isMoveValid_Always(ins) == TRUE

isMoveValid(ins) == ~(ins.source.kind = "Stack" /\ ins.destination.kind = "Stack")
isCmpValid(ins) == ~(ins.a.kind = "Stack" /\ ins.b.kind = "Stack")
isBinOpValid(ins) == ~(ins.operand1.kind = "Stack" /\ ins.operand2.kind = "Stack")

\* faulty variant: a Cmp of two stack slots reads R10 without loading it
fixupInstruction_NoShuttle(ins) ==
  CASE ins.kind = "Mov" ->
         IF isMoveValid(ins) THEN <<ins>>
         ELSE <<Mov(ins.source, Reg(R10)), Mov(Reg(R10), ins.destination)>>
    [] ins.kind = "Cmp" ->
         IF ins.b.kind = "Imm" THEN <<Mov(ins.b, Reg(R11)), Cmp(ins.a, Reg(R11))>>
         ELSE IF isCmpValid(ins) THEN <<ins>>
         ELSE <<Cmp(Reg(R10), ins.b)>>
    [] ins.kind = "Idiv" ->
         IF ins.operand.kind # "Imm" THEN <<ins>>
         ELSE <<Mov(ins.operand, Reg(R10)), Idiv(Reg(R10))>>
    [] ins.kind = "BinaryOperation" ->
         IF ins.operand2.kind = "Imm" /\ ins.operator \in {"+", "-", "*"}
         THEN <<Mov(ins.operand1, Reg(R10)),
                BinaryOperation(ins.operator, Reg(R10), ins.operand2)>>
         ELSE IF ins.operator = "*" /\ ins.operand2.kind = "Stack"
         THEN <<Mov(ins.operand2, Reg(R11)),
                BinaryOperation(ins.operator, ins.operand1, Reg(R11)),
                Mov(Reg(R11), ins.operand2)>>
         ELSE IF isBinOpValid(ins) THEN <<ins>>
         ELSE IF ins.operator \in {"+", "-"}
         THEN <<Mov(ins.operand1, Reg(R10)),
                BinaryOperation(ins.operator, Reg(R10), ins.operand2)>>
         ELSE <<>>
    [] OTHER -> <<ins>>

\* faulty variant: without the Multiply branch, so that a Multiply of two
\* stack slots reaches the branch that pushes nothing
fixupInstruction_DropMultiply(ins) ==
  CASE ins.kind = "Mov" ->
         IF isMoveValid(ins) THEN <<ins>>
         ELSE <<Mov(ins.source, Reg(R10)), Mov(Reg(R10), ins.destination)>>
    [] ins.kind = "Cmp" ->
         IF ins.b.kind = "Imm" THEN <<Mov(ins.b, Reg(R11)), Cmp(ins.a, Reg(R11))>>
         ELSE IF isCmpValid(ins) THEN <<ins>>
         ELSE <<Mov(ins.a, Reg(R10)), Cmp(Reg(R10), ins.b)>>
    [] ins.kind = "Idiv" ->
         IF ins.operand.kind # "Imm" THEN <<ins>>
         ELSE <<Mov(ins.operand, Reg(R10)), Idiv(Reg(R10))>>
    [] ins.kind = "BinaryOperation" ->
         IF ins.operand2.kind = "Imm" /\ ins.operator \in {"+", "-", "*"}
         THEN <<Mov(ins.operand1, Reg(R10)),
                BinaryOperation(ins.operator, Reg(R10), ins.operand2)>>
         ELSE IF isBinOpValid(ins) THEN <<ins>>
         ELSE IF ins.operator \in {"+", "-"}
         THEN <<Mov(ins.operand1, Reg(R10)),
                BinaryOperation(ins.operator, Reg(R10), ins.operand2)>>
         ELSE <<>>
    [] OTHER -> <<ins>>

\* faulty variant: the product is left in R11 and not stored back
fixupInstruction_NoStoreBack(ins) ==
  CASE ins.kind = "Mov" ->
         IF isMoveValid(ins) THEN <<ins>>
         ELSE <<Mov(ins.source, Reg(R10)), Mov(Reg(R10), ins.destination)>>
    [] ins.kind = "Cmp" ->
         IF ins.b.kind = "Imm" THEN <<Mov(ins.b, Reg(R11)), Cmp(ins.a, Reg(R11))>>
         ELSE IF isCmpValid(ins) THEN <<ins>>
         ELSE <<Mov(ins.a, Reg(R10)), Cmp(Reg(R10), ins.b)>>
    [] ins.kind = "Idiv" ->
         IF ins.operand.kind # "Imm" THEN <<ins>>
         ELSE <<Mov(ins.operand, Reg(R10)), Idiv(Reg(R10))>>
    [] ins.kind = "BinaryOperation" ->
         IF ins.operand2.kind = "Imm" /\ ins.operator \in {"+", "-", "*"}
         THEN <<Mov(ins.operand1, Reg(R10)),
                BinaryOperation(ins.operator, Reg(R10), ins.operand2)>>
         ELSE IF ins.operator = "*" /\ ins.operand2.kind = "Stack"
         THEN <<Mov(ins.operand2, Reg(R11)),
                BinaryOperation(ins.operator, ins.operand1, Reg(R11))>>
         ELSE IF isBinOpValid(ins) THEN <<ins>>
         ELSE IF ins.operator \in {"+", "-"}
         THEN <<Mov(ins.operand1, Reg(R10)),
                BinaryOperation(ins.operator, Reg(R10), ins.operand2)>>
         ELSE <<>>
    [] OTHER -> <<ins>>

\* the body of fixupInvalidInstructions' loop for one instruction
fixupInstruction(ins) ==
  CASE ins.kind = "Mov" ->
         IF isMoveValid(ins) THEN <<ins>>
         ELSE <<Mov(ins.source, Reg(R10)), Mov(Reg(R10), ins.destination)>>
    [] ins.kind = "Cmp" ->
         IF ins.b.kind = "Imm" THEN <<Mov(ins.b, Reg(R11)), Cmp(ins.a, Reg(R11))>>
         ELSE IF isCmpValid(ins) THEN <<ins>>
         ELSE <<Mov(ins.a, Reg(R10)), Cmp(Reg(R10), ins.b)>>
    [] ins.kind = "Idiv" ->
         IF ins.operand.kind # "Imm" THEN <<ins>>
         ELSE <<Mov(ins.operand, Reg(R10)), Idiv(Reg(R10))>>
    [] ins.kind = "BinaryOperation" ->
         IF ins.operand2.kind = "Imm" /\ ins.operator \in {"+", "-", "*"}
         THEN <<Mov(ins.operand1, Reg(R10)),
                BinaryOperation(ins.operator, Reg(R10), ins.operand2)>>
         ELSE IF ins.operator = "*" /\ ins.operand2.kind = "Stack"
         THEN <<Mov(ins.operand2, Reg(R11)),
                BinaryOperation(ins.operator, ins.operand1, Reg(R11)),
                Mov(Reg(R11), ins.operand2)>>
         ELSE IF isBinOpValid(ins) THEN <<ins>>
         ELSE IF ins.operator \in {"+", "-"}
         THEN <<Mov(ins.operand1, Reg(R10)),
                BinaryOperation(ins.operator, Reg(R10), ins.operand2)>>
         ELSE <<>>
    [] OTHER -> <<ins>>

\* pass C
RECURSIVE fixupInvalidInstructions(_)
fixupInvalidInstructions(instructions) ==
  IF instructions = <<>> THEN <<>>
  ELSE fixupInstruction(Head(instructions)) \o fixupInvalidInstructions(Tail(instructions))

\* the operand fields of an instruction, in the order pass B visits them
AsmOperands(ins) ==
  CASE ins.kind = "Mov" -> <<ins.source, ins.destination>>
    [] ins.kind \in {"UnaryOperation", "Idiv", "SetCC"} -> <<ins.operand>>
    [] ins.kind = "BinaryOperation" -> <<ins.operand1, ins.operand2>>
    [] ins.kind = "Cmp" -> <<ins.a, ins.b>>
    [] OTHER -> <<>>
\* all operands of an instruction list, in order
RECURSIVE AllOperands(_)
AllOperands(instructions) ==
  IF instructions = <<>> THEN <<>>
  ELSE AsmOperands(Head(instructions)) \o AllOperands(Tail(instructions))
\* the distinct Pseudo symbols of an operand sequence, in order of first occurrence
RECURSIVE PseudoOrder(_, _)
PseudoOrder(operands, seen) ==
  IF operands = <<>> THEN seen
  ELSE LET o == Head(operands) IN
       IF o.kind = "PseudoReg" /\ \A i \in 1..Len(seen) : seen[i] # o.symbol
       THEN PseudoOrder(Tail(operands), Append(seen, o.symbol))
       ELSE PseudoOrder(Tail(operands), seen)
Pseudos(instructions) == PseudoOrder(AllOperands(instructions), <<>>)
\* an instruction list without the AllocateStack at its head, if there is one
SkipAllocateStack(instructions) ==
  IF instructions # <<>> /\ Head(instructions).kind = "AllocateStack"
  THEN Tail(instructions) ELSE instructions
Abs(x) == IF x < 0 THEN 0 - x ELSE x
\* the largest absolute offset among the Stack operands
MaxAbsOffset(instructions) ==
  LET ops == AllOperands(instructions)
      offs == {Abs(ops[i].value) : i \in {j \in 1..Len(ops) : ops[j].kind = "Stack"}}
  IN  IF offs = {} THEN 0 ELSE CHOOSE m \in offs : \A x \in offs : x <= m

\* what an instruction reads and what it writes, by the x86 meaning of the
\* instruction kinds (the destination of a BinaryOperation is operand2, as
\* generateFunction builds it and emit prints it)
ReadOperands(ins) ==
  CASE ins.kind = "Mov" -> {ins.source}
    [] ins.kind = "Cmp" -> {ins.a, ins.b}
    [] ins.kind = "BinaryOperation" -> {ins.operand1, ins.operand2}
    [] ins.kind \in {"Idiv", "UnaryOperation"} -> {ins.operand}
    [] OTHER -> {}
WrittenOperands(ins) ==
  CASE ins.kind = "Mov" -> {ins.destination}
    [] ins.kind = "BinaryOperation" -> {ins.operand2}
    [] ins.kind \in {"SetCC", "UnaryOperation"} -> {ins.operand}
    [] OTHER -> {}
\* the scratch registers of pass C
Scratch == {Reg(R10), Reg(R11)}
\* in a group of instructions, every read of a scratch register comes after
\* a write of that register in the same group
ScratchLocal(group) ==
  \A j \in 1..Len(group) :
    \A r \in Scratch \cap ReadOperands(group[j]) :
      \E k \in 1..(j - 1) : r \in WrittenOperands(group[k])
\* one instruction stands for another: the same kind and the same operator
SameOperation(x, y) ==
  /\ x.kind = y.kind
  /\ x.kind \in {"BinaryOperation", "UnaryOperation"} => x.operator = y.operator
  /\ x.kind \in {"SetCC", "JmpCC"} => x.condition = y.condition
\* every instruction of `input` has an instruction of the same operation in
\* `output`, in the same order
RECURSIVE Represented(_, _)
Represented(input, output) ==
  IF input = <<>> THEN TRUE
  ELSE IF output = <<>> THEN FALSE
  ELSE IF SameOperation(Head(input), Head(output))
  THEN Represented(Tail(input), Tail(output))
  ELSE Represented(input, Tail(output))

\* ------------------------------------------- one function, pass by pass
\* The function bodies compiled: declarations of a and b, return and
\* expression statements, over every operator; a name is used only after
\* its declaration and declared once, as the resolver has checked.
CInits == {Undefined, NumLiteral(2), BinaryExpr("+", TVarA, NumLiteral(2))}
CAssigns == {Assignment(TVarA, NumLiteral(2)), Assignment(TVarA, TVarB)}
CExprs ==
  {NumLiteral(2), TVarA, UnaryExpr("-", NumLiteral(2))}
  \cup {UnaryExpr(op, TVarA) : op \in {"-", "~", "!"}}
  \cup {BinaryExpr(op, l, r) : op \in {"+", "*", "/"},
                               l \in {TVarA, NumLiteral(2)}, r \in {TVarA, NumLiteral(2)}}
  \cup {BinaryExpr(op, TVarA, r) : op \in {"-", "%"}, r \in {TVarA, NumLiteral(2)}}
  \cup {BinaryExpr(op, TVarA, NumLiteral(2)) : op \in {"==", "!=", "<", "<=", ">", ">="}}
  \cup {BinaryExpr("<", NumLiteral(2), TVarA), BinaryExpr("<", TVarA, TVarA)}
  \cup {BinaryExpr(op, TVarA, TVarB) : op \in {"&&", "||"}}
  \cup {ConditionalExpr(TVarA, NumLiteral(2), TVarB)}
  \cup CAssigns
CBlockItems ==
  {SBlock(ReturnStatement(e)) : e \in CExprs}
  \cup {SBlock(ExpressionStatement(e)) : e \in CAssigns}
  \cup {DBlock(Declaration(v.symbol, e)) : v \in TVars, e \in CInits}

\* the symbols a block item refers to
ItemSymbols(item) ==
  CASE item.kind = "DBlock" ->
         IF item.declaration.expr = Undefined THEN {}
         ELSE MentionedNames(item.declaration.expr)
    [] item.statement.kind = "Return" -> MentionedNames(item.statement.value)
    [] item.statement.kind = "Expression" -> MentionedNames(item.statement.expr)

CodegenInit ==
  /\ cPhase = "ast"
  /\ cItems = 0
  /\ cDeclared = {}
  /\ cGen = NewTasGenerator
  /\ cAsmA = <<>>
  /\ cAsmB = <<>>
  /\ cAsmC = <<>>

\* emitTackyBlock: the next block item of the function body
EmitTackyBlockItem(item) ==
  /\ cPhase = "ast"
  /\ cItems < MaxItems
  /\ IF item.kind = "DBlock"
     THEN /\ item.declaration.symbol \notin cDeclared
          /\ ItemSymbols(item) \subseteq cDeclared \cup {item.declaration.symbol}
          /\ cDeclared' = cDeclared \cup {item.declaration.symbol}
     ELSE /\ ItemSymbols(item) \subseteq cDeclared
          /\ UNCHANGED cDeclared
  /\ cGen' = emitTackyBlockItem(item, cGen)
  /\ cItems' = cItems + 1
  /\ UNCHANGED <<cPhase, cAsmA, cAsmB, cAsmC>>
  /\ UNCHANGED <<labelerVars, resolverVars, tacVars, programVars, parserVars, driverVars, lexerVars,
               machineVars, produceVars>>

\* generateAsmTree, pass 1
GenerateFunction ==
  /\ cPhase = "ast"
  /\ cItems > 0
  /\ cAsmA' = generateFunction(cGen.instructions)
  /\ cPhase' = "A"
  /\ UNCHANGED <<cItems, cDeclared, cGen, cAsmB, cAsmC>>
  /\ UNCHANGED <<labelerVars, resolverVars, tacVars, programVars, parserVars, driverVars, lexerVars,
               machineVars, produceVars>>

\* generateAsmTree, pass 2
ReplacePseudoregisters ==
  /\ cPhase = "A"
  /\ cAsmB' = replacePseudoregisters(cAsmA)
  /\ cPhase' = "B"
  /\ UNCHANGED <<cItems, cDeclared, cGen, cAsmA, cAsmC>>
  /\ UNCHANGED <<labelerVars, resolverVars, tacVars, programVars, parserVars, driverVars, lexerVars,
               machineVars, produceVars>>

\* generateAsmTree, pass 3
FixupInvalidInstructions ==
  /\ cPhase = "B"
  /\ cAsmC' = fixupInvalidInstructions(cAsmB)
  /\ cPhase' = "C"
  /\ UNCHANGED <<cItems, cDeclared, cGen, cAsmA, cAsmB>>
  /\ UNCHANGED <<labelerVars, resolverVars, tacVars, programVars, parserVars, driverVars, lexerVars,
               machineVars, produceVars>>

CodegenNext ==
  \/ \E item \in CBlockItems : EmitTackyBlockItem(item)
  \/ GenerateFunction
  \/ ReplacePseudoregisters
  \/ FixupInvalidInstructions

\* ====================================================================
\* Parser (src/parser.ts): expressions
\* ====================================================================
Token(type, value) == [type |-> type, value |-> value]
\* the token types isNextBinOp accepts
BinOpTokens ==
  {"Plus", "Minus", "Asterisk", "ForwardSlash", "Modulus", "Equal", "DoubleEqual",
   "NotEqual", "LogicalAnd", "LogicalOr", "GreaterThan", "GreaterThanEqual",
   "LessThan", "LessThanEqual", "Question"}
\* nextBinOp: the BinaryOperator of a token type
nextBinOp(type) ==
  CASE type = "Plus" -> "+"
    [] type = "Minus" -> "-"
    [] type = "Asterisk" -> "*"
    [] type = "ForwardSlash" -> "/"
    [] type = "Modulus" -> "%"
    [] type = "Equal" -> "="
    [] type = "DoubleEqual" -> "=="
    [] type = "NotEqual" -> "!="
    [] type = "LogicalAnd" -> "&&"
    [] type = "LogicalOr" -> "||"
    [] type = "GreaterThan" -> ">"
    [] type = "GreaterThanEqual" -> ">="
    [] type = "LessThan" -> "<"
    [] type = "LessThanEqual" -> "<="
    [] type = "Question" -> "?"

\* faulty variant: `*` has the precedence of `+`
precedence_Flat(operator) ==
  CASE operator = "=" -> 1
    [] operator = "?" -> 3
    [] operator = "||" -> 5
    [] operator = "&&" -> 10
    [] operator \in {"==", "!="} -> 30
    [] operator \in {"<", "<=", ">", ">="} -> 35
    [] operator \in {"+", "-"} -> 45
    [] operator \in {"*", "/", "%"} -> 45

\* precedence(operator): precedenceMap
precedence(operator) ==
  CASE operator = "=" -> 1
    [] operator = "?" -> 3
    [] operator = "||" -> 5
    [] operator = "&&" -> 10
    [] operator \in {"==", "!="} -> 30
    [] operator \in {"<", "<=", ">", ">="} -> 35
    [] operator \in {"+", "-"} -> 45
    [] operator \in {"*", "/", "%"} -> 50

\* the result of a parsing method: the node and the tokens left, or ok =
\* FALSE where bail or a throw ended the parse
Parsed(expr, tokens) == [ok |-> TRUE, expr |-> expr, tokens |-> tokens]
ParseError == [ok |-> FALSE, expr |-> Undefined, tokens |-> <<>>]
\* expect(type): consumes the next token, which must have the type
expect(tokens, type) ==
  IF tokens # <<>> /\ Head(tokens).type = type THEN Parsed(Undefined, Tail(tokens))
  ELSE ParseError

RECURSIVE parseExpr(_, _)
RECURSIVE parseFactor(_)
RECURSIVE parseExprLoop(_, _, _)
parseFactor(tokens) ==
  IF tokens = <<>> THEN ParseError
  ELSE LET token == Head(tokens) IN
    CASE token.type = "Identifier" -> Parsed(Variable(token.value), Tail(tokens))
      [] token.type = "Constant" -> Parsed(NumLiteral(token.value), Tail(tokens))
      [] token.type = "OpenParenthesis" ->
           Only({IF ~e.ok THEN ParseError
                 ELSE LET close == expect(e.tokens, "CloseParenthesis")
                      IN  IF close.ok THEN Parsed(e.expr, close.tokens) ELSE ParseError
                 : e \in {parseExpr(Tail(tokens), 0)}})
      [] token.type \in {"Minus", "Tilde", "LogicalNot"} ->
           Only({IF ~f.ok THEN ParseError
                 ELSE Parsed(UnaryExpr(CASE token.type = "Minus" -> "-"
                                         [] token.type = "Tilde" -> "~"
                                         [] token.type = "LogicalNot" -> "!",
                                       f.expr), f.tokens)
                 : f \in {parseFactor(Tail(tokens))}})
      [] OTHER -> ParseError

\* faulty variant: the right side of `=` is parsed like that of a
\* left-associative operator
parseExprLoop_LeftAssign(left, tokens, minimumPrecedence) ==
  IF tokens = <<>> THEN ParseError
  ELSE IF ~(Head(tokens).type \in BinOpTokens
            /\ precedence(nextBinOp(Head(tokens).type)) >= minimumPrecedence)
  THEN Parsed(left, tokens)
  ELSE IF Head(tokens).type = "Equal"
  THEN Only({IF ~right.ok THEN ParseError
             ELSE parseExprLoop(Assignment(left, right.expr), right.tokens,
                                minimumPrecedence)
             : right \in {parseExpr(Tail(tokens), precedence("=") + 1)}})
  ELSE IF Head(tokens).type = "Question"
  THEN Only({IF ~middle.ok THEN ParseError
             ELSE LET colon == expect(middle.tokens, "Colon") IN
                  IF ~colon.ok THEN ParseError
                  ELSE Only({IF ~falseTrack.ok THEN ParseError
                             ELSE parseExprLoop(
                                    ConditionalExpr(left, middle.expr, falseTrack.expr),
                                    falseTrack.tokens, minimumPrecedence)
                             : falseTrack \in {parseExpr(colon.tokens, precedence("?"))}})
             : middle \in {parseExpr(Tail(tokens), 0)}})
  ELSE LET operator == nextBinOp(Head(tokens).type) IN
       Only({IF ~right.ok THEN ParseError
             ELSE parseExprLoop(BinaryExpr(operator, left, right.expr), right.tokens,
                                minimumPrecedence)
             : right \in {parseExpr(Tail(tokens), precedence(operator) + 1)}})

\* the while loop of parseExpr, with `left` as it stands
parseExprLoop(left, tokens, minimumPrecedence) ==
  IF tokens = <<>> THEN ParseError
  ELSE IF ~(Head(tokens).type \in BinOpTokens
            /\ precedence(nextBinOp(Head(tokens).type)) >= minimumPrecedence)
  THEN Parsed(left, tokens)
  ELSE IF Head(tokens).type = "Equal"
  THEN Only({IF ~right.ok THEN ParseError
             ELSE parseExprLoop(Assignment(left, right.expr), right.tokens,
                                minimumPrecedence)
             : right \in {parseExpr(Tail(tokens), precedence("="))}})
  ELSE IF Head(tokens).type = "Question"
  THEN Only({IF ~middle.ok THEN ParseError
             ELSE LET colon == expect(middle.tokens, "Colon") IN
                  IF ~colon.ok THEN ParseError
                  ELSE Only({IF ~falseTrack.ok THEN ParseError
                             ELSE parseExprLoop(
                                    ConditionalExpr(left, middle.expr, falseTrack.expr),
                                    falseTrack.tokens, minimumPrecedence)
                             : falseTrack \in {parseExpr(colon.tokens, precedence("?"))}})
             : middle \in {parseExpr(Tail(tokens), 0)}})
  ELSE LET operator == nextBinOp(Head(tokens).type) IN
       Only({IF ~right.ok THEN ParseError
             ELSE parseExprLoop(BinaryExpr(operator, left, right.expr), right.tokens,
                                minimumPrecedence)
             : right \in {parseExpr(Tail(tokens), precedence(operator) + 1)}})

\* parseExpr(minimumPrecedence): a factor, then the loop
parseExpr(tokens, minimumPrecedence) ==
  Only({IF ~left.ok THEN ParseError
        ELSE parseExprLoop(left.expr, left.tokens, minimumPrecedence)
        : left \in {parseFactor(tokens)}})

\* parseStatement, default case: an expression, then `;`
parseExpressionStatement(tokens) ==
  Only({IF ~e.ok THEN ParseError
        ELSE LET semicolon == expect(e.tokens, "Semicolon")
             IN  IF semicolon.ok THEN Parsed(e.expr, semicolon.tokens) ELSE ParseError
        : e \in {parseExpr(tokens, 0)}})

\* ---- the statements parsed: operand (operator operand)*
\* the k-th operand: an identifier or a constant, told apart by position
Operand(k) ==
  IF k % 2 = 1 THEN Token("Identifier", <<"x", k>>) ELSE Token("Constant", k)
OperandCount(tokens) ==
  Cardinality({i \in 1..Len(tokens) : tokens[i].type \in {"Identifier", "Constant"}})
\* the tokens between operands
PInfix == {"Plus", "Minus", "Asterisk", "LessThan", "LogicalAnd", "Equal", "Question", "Colon"}

ParserInit ==
  /\ psTokens = <<Operand(1)>>
  /\ psAst = Undefined
  /\ psPc = "tokens"

\* the lexer hands over one more operator and its operand, negated or not
NextTokens(type, negated) ==
  /\ psPc = "tokens"
  /\ OperandCount(psTokens) < MaxOperands
  /\ negated => type = "Minus"
  /\ psTokens' = psTokens \o <<Token(type, Undefined)>>
                          \o (IF negated THEN <<Token("Minus", Undefined)>> ELSE <<>>)
                          \o <<Operand(OperandCount(psTokens) + 1)>>
  /\ UNCHANGED <<psAst, psPc>>
  /\ UNCHANGED <<labelerVars, resolverVars, tacVars, codegenVars, programVars, driverVars, lexerVars,
               machineVars, produceVars>>

\* parseStatement on `<tokens> ;`
ParseStatement ==
  /\ psPc = "tokens"
  /\ LET result == parseExpressionStatement(psTokens \o <<Token("Semicolon", Undefined)>>) IN
     /\ psPc' = IF result.ok THEN "parsed" ELSE "failed"
     /\ psAst' = result.expr
  /\ UNCHANGED psTokens
  /\ UNCHANGED <<labelerVars, resolverVars, tacVars, codegenVars, programVars, driverVars, lexerVars,
               machineVars, produceVars>>

ParserNext ==
  \/ \E type \in PInfix, negated \in BOOLEAN : NextTokens(type, negated)
  \/ ParseStatement

\* ---- what a tree says about its tokens
\* the tokens a tree was parsed from, in order
RECURSIVE InOrder(_)
InOrder(expr) ==
  CASE expr.kind = "Variable" -> <<Token("Identifier", expr.symbol)>>
    [] expr.kind = "NumLiteral" -> <<Token("Constant", expr.value)>>
    [] expr.kind = "UnaryExpr" -> <<Token("Minus", Undefined)>> \o InOrder(expr.expr)
    [] expr.kind = "BinaryExpr" ->
         InOrder(expr.left)
           \o <<Token(Only({t \in BinOpTokens : nextBinOp(t) = expr.operator}), Undefined)>>
           \o InOrder(expr.right)
    [] expr.kind = "Assignment" ->
         InOrder(expr.left) \o <<Token("Equal", Undefined)>> \o InOrder(expr.right)
    [] expr.kind = "Conditional" ->
         InOrder(expr.condition) \o <<Token("Question", Undefined)>> \o InOrder(expr.ifTrue)
           \o <<Token("Colon", Undefined)>> \o InOrder(expr.ifFalse)
\* the precedence table of the language, highest first
Level(operator) ==
  CASE operator \in {"*", "/", "%"} -> 50
    [] operator \in {"+", "-"} -> 45
    [] operator \in {"<", "<=", ">", ">="} -> 35
    [] operator \in {"==", "!="} -> 30
    [] operator = "&&" -> 10
    [] operator = "||" -> 5
    [] operator = "?" -> 3
    [] operator = "=" -> 1
\* how tightly the operator at the root of a tree binds; operands and unary
\* expressions bind tighter than any binary operator
RootLevel(expr) ==
  CASE expr.kind = "BinaryExpr" -> Level(expr.operator)
    [] expr.kind = "Conditional" -> Level("?")
    [] expr.kind = "Assignment" -> Level("=")
    [] OTHER -> 100
RECURSIVE SubExprs(_)
SubExprs(expr) ==
  {expr} \cup
  CASE expr.kind = "UnaryExpr" -> SubExprs(expr.expr)
    [] expr.kind \in {"BinaryExpr", "Assignment"} ->
         SubExprs(expr.left) \cup SubExprs(expr.right)
    [] expr.kind = "Conditional" ->
         SubExprs(expr.condition) \cup SubExprs(expr.ifTrue) \cup SubExprs(expr.ifFalse)
    [] OTHER -> {}
\* every `:` closes a `?` before it and every `?` is closed
CountOf(tokens, type) == Cardinality({i \in 1..Len(tokens) : tokens[i].type = type})
Matched(tokens) ==
  /\ CountOf(tokens, "Question") = CountOf(tokens, "Colon")
  /\ \A n \in 1..Len(tokens) :
       CountOf(SubSeq(tokens, 1, n), "Question") >= CountOf(SubSeq(tokens, 1, n), "Colon")

\* ====================================================================
\* labelLoops, then generateTas, on whole programs
\* ====================================================================
\* The statements of the programs: every statement kind, loops of each kind
\* around Break and Continue (directly, under If, after a nested loop), For
\* with each of init, condition and post present or absent.
PVar == Variable(<<"var", "a", "renamed", 0>>)
PStep == Assignment(PVar, BinaryExpr("+", PVar, NumLiteral(1)))
PInner ==
  {Null, Break, Continue, ReturnStatement(NumLiteral(1)),
   IfStatement(NumLiteral(1), Break, Undefined),
   IfStatement(PVar, Continue, Break),
   CompoundStatement(<<SBlock(WhileStatement(NumLiteral(1), Null)), SBlock(Break)>>),
   WhileStatement(NumLiteral(1), Continue),
   ForStatement(ForInit(Undefined), Undefined, Undefined, Break)}
PForInits ==
  {ForInit(Undefined), ForInit(Assignment(PVar, NumLiteral(0))),
   ForInit(Declaration(<<"var", "a", "renamed", 0>>, NumLiteral(0)))}
PFors ==
  {ForStatement(i, c, p, Continue) :
     i \in PForInits, c \in {Undefined, BinaryExpr("<", PVar, NumLiteral(2))},
     p \in {Undefined, PStep}}
\* a For whose body holds a loop of its own before a Continue
PForAroundLoop ==
  ForStatement(ForInit(Undefined), BinaryExpr("<", PVar, NumLiteral(2)), PStep,
               CompoundStatement(<<SBlock(WhileStatement(NumLiteral(0), Null)),
                                   SBlock(Continue)>>))
PLoops ==
  {WhileStatement(BinaryExpr("&&", PVar, NumLiteral(1)), b) : b \in PInner}
  \cup {DoWhileStatement(b, NumLiteral(1)) : b \in PInner}
  \cup PFors \cup {PForAroundLoop}
PStatements ==
  PLoops
  \cup {Null, Break, Continue, ReturnStatement(ConditionalExpr(PVar, NumLiteral(1), NumLiteral(2)))}
  \cup {IfStatement(NumLiteral(1), WhileStatement(NumLiteral(1), Break),
                     DoWhileStatement(Continue, NumLiteral(1))),
         IfStatement(NumLiteral(1), IfStatement(PVar, Null, Null), Undefined),
         CompoundStatement(<<SBlock(WhileStatement(NumLiteral(1), Break)),
                             SBlock(DoWhileStatement(Continue, NumLiteral(1)))>>)}

\* generateTas: one instruction list per function, the counters of the
\* generator running on from function to function
RECURSIVE generateTas(_, _)
generateTas(body, g) ==
  IF body = <<>> THEN <<>>
  ELSE Only({<<f.instructions>> \o generateTas(Tail(body), f)
             : f \in {emitTackyBlock(Head(body), [g EXCEPT !.instructions = <<>>])}})

\* the statements of the given kind ("Break" or "Continue") in a statement
\* that belong to the loop around it: those not inside a loop of their own
RECURSIVE OwnJumps(_, _)
RECURSIVE OwnJumpsOfBlock(_, _)
OwnJumps(statement, kind) ==
  CASE statement.kind = kind -> 1
    [] statement.kind = "Compound" -> OwnJumpsOfBlock(statement.block, kind)
    [] statement.kind = "If" ->
         OwnJumps(statement.then, kind)
           + (IF statement.else = Undefined THEN 0 ELSE OwnJumps(statement.else, kind))
    [] OTHER -> 0
OwnJumpsOfBlock(block, kind) ==
  IF block = <<>> THEN 0
  ELSE (IF Head(block).kind = "SBlock" THEN OwnJumps(Head(block).statement, kind) ELSE 0)
         + OwnJumpsOfBlock(Tail(block), kind)

\* the numbers of the temporaries written, and of the labels made by
\* makeLabel and placed, in an instruction list
TempNumbers(code) ==
  {code[i].destination.symbol[3] :
     i \in {j \in 1..Len(code) :
              /\ code[j].kind \in {"Copy", "UnaryOperation", "BinaryOperation"}
              /\ Head(code[j].destination.symbol) = "temp"}}
LabelNumbers(code) ==
  {code[i].symbol[2] :
     i \in {j \in 1..Len(code) : code[j].kind = "Label" /\ Len(code[j].symbol) = 2}}

ProgramInit ==
  /\ pBody = <<>>
  /\ pLoopLabelCounter = 0
  /\ pPc = "label"
  /\ pTas = <<>>

\* labelLoops: the next function of the program, its body one statement
LabelFunction(statement) ==
  /\ pPc = "label"
  /\ Len(pBody) < MaxFuncs
  /\ LET b == labelBlock(<<SBlock(statement)>>, 0, pLoopLabelCounter) IN
     /\ pLoopLabelCounter' = b.counter
     /\ IF b.ok
        THEN pBody' = Append(pBody, b.statement) /\ UNCHANGED pPc
        ELSE pPc' = "failed" /\ UNCHANGED pBody
  /\ UNCHANGED pTas
  /\ UNCHANGED <<labelerVars, resolverVars, tacVars, codegenVars, parserVars, driverVars, lexerVars,
               machineVars, produceVars>>

\* generateTas on the labelled program
GenerateTasProgram ==
  /\ pPc = "label"
  /\ pBody # <<>>
  /\ pTas' = generateTas(pBody, NewTasGenerator)
  /\ pPc' = "tas"
  /\ UNCHANGED <<pBody, pLoopLabelCounter>>
  /\ UNCHANGED <<labelerVars, resolverVars, tacVars, codegenVars, parserVars, driverVars, lexerVars,
               machineVars, produceVars>>

ProgramNext ==
  \/ \E st \in PStatements : LabelFunction(st)
  \/ GenerateTasProgram

\* ====================================================================
\* The driver (src/main.ts): the branch without a stage flag
\* ====================================================================
NoFault == <<"none", 0>>
\* the places where a stage ends the process: bail, a throw or Deno.exit(1);
\* the second part is the function of the generateAsmTree loop, 0 elsewhere
Faults(funcs) ==
  {<<stage, 0>> : stage \in {"tokenize", "produceAst", "resolveVariables", "labelLoops",
                             "generateTas", "emit"}}
    \cup {<<stage, f>> : stage \in {"generateFunction", "replacePseudoregisters"},
                         f \in 1..funcs}
DSources ==
  {[funcs |-> n, fault |-> f] : n \in 1..MaxFuncs, f \in {NoFault}}
    \cup UNION {{[funcs |-> n, fault |-> f] : f \in Faults(n)} : n \in 1..MaxFuncs}

DriverInit ==
  /\ dSource = [funcs |-> 0, fault |-> NoFault]
  /\ dPc = "readTextFile"
  /\ dFunc = 0
  /\ dLog = <<>>
  /\ dOut = "absent"

\* faulty variant: a stage that reports an error returns
RunStage_Return(stage, next) ==
  /\ dPc = stage
  /\ dPc' = next
  /\ dLog' = IF dSource.fault = <<stage, dFunc>> THEN dLog ELSE Append(dLog, stage)
  /\ UNCHANGED <<dSource, dFunc, dOut>>
  /\ UNCHANGED <<labelerVars, resolverVars, tacVars, codegenVars, programVars, parserVars, lexerVars,
               machineVars, produceVars>>

\* one call of the branch: it returns, or it ends the process
RunStage(stage, next) ==
  /\ dPc = stage
  /\ IF dSource.fault = <<stage, dFunc>>
     THEN dPc' = "aborted" /\ dLog' = dLog
     ELSE dPc' = next /\ dLog' = Append(dLog, stage)
  /\ UNCHANGED <<dSource, dFunc, dOut>>
  /\ UNCHANGED <<labelerVars, resolverVars, tacVars, codegenVars, programVars, parserVars, lexerVars,
               machineVars, produceVars>>

\* Deno.readTextFile(filePath)
ReadTextFile(source) ==
  /\ dPc = "readTextFile"
  /\ dSource' = source
  /\ dPc' = "tokenize"
  /\ UNCHANGED <<dFunc, dLog, dOut>>
  /\ UNCHANGED <<labelerVars, resolverVars, tacVars, codegenVars, programVars, parserVars, lexerVars,
               machineVars, produceVars>>

Tokenize == RunStage("tokenize", "produceAst")
ProduceAst == RunStage("produceAst", "resolveVariables")
\* semanticAnalysis: the resolver, then the labeler
ResolveVariables == RunStage("resolveVariables", "labelLoops")
LabelLoops == RunStage("labelLoops", "generateTas")
DriverGenerateTas == RunStage("generateTas", "generateAsmTree")
\* generateAsmTree: the head of the loop over the functions
NextAsmFunction ==
  /\ dPc = "generateAsmTree"
  /\ IF dFunc < dSource.funcs
     THEN dFunc' = dFunc + 1 /\ dPc' = "generateFunction"
     ELSE dFunc' = 0 /\ dPc' = "emit"
  /\ UNCHANGED <<dSource, dLog, dOut>>
  /\ UNCHANGED <<labelerVars, resolverVars, tacVars, codegenVars, programVars, parserVars, lexerVars,
               machineVars, produceVars>>
DriverGenerateFunction == RunStage("generateFunction", "replacePseudoregisters")
DriverReplacePseudoregisters == RunStage("replacePseudoregisters", "fixupInvalidInstructions")
DriverFixupInvalidInstructions == RunStage("fixupInvalidInstructions", "generateAsmTree")
\* emit(asmTree, "out.asm"): the text is built, then written
Emit ==
  /\ dPc = "emit"
  /\ IF dSource.fault = <<"emit", 0>>
     THEN dPc' = "aborted" /\ UNCHANGED <<dLog, dOut>>
     ELSE dPc' = "done" /\ dLog' = Append(dLog, "emit") /\ dOut' = "written"
  /\ UNCHANGED <<dSource, dFunc>>
  /\ UNCHANGED <<labelerVars, resolverVars, tacVars, codegenVars, programVars, parserVars, lexerVars,
               machineVars, produceVars>>

DriverNext ==
  \/ \E source \in DSources : ReadTextFile(source)
  \/ Tokenize
  \/ ProduceAst
  \/ ResolveVariables
  \/ LabelLoops
  \/ DriverGenerateTas
  \/ NextAsmFunction
  \/ DriverGenerateFunction
  \/ DriverReplacePseudoregisters
  \/ DriverFixupInvalidInstructions
  \/ Emit

\* the calls of a full run on a source of n functions
RECURSIVE AsmPasses(_)
AsmPasses(n) ==
  IF n = 0 THEN <<>>
  ELSE AsmPasses(n - 1)
         \o <<"generateFunction", "replacePseudoregisters", "fixupInvalidInstructions">>
FullPipeline(n) ==
  <<"tokenize", "produceAst", "resolveVariables", "labelLoops", "generateTas">>
    \o AsmPasses(n)

\* ====================================================================
\* Lexer (src/unnamed/part_002)
\* ====================================================================
\* A text is a sequence of characters. The characters of the texts lexed:
\* a newline, a space, a letter, a digit, three characters testToken knows
\* and the `#` of a preprocessor line.
LexChars == {"\n", " ", "x", "2", ";", "/", "*", "#"}
Whitespace == {"\n", " "}
Letters == {"x"}
Digits == {"2"}
\* \w
WordChars == Letters \cup Digits
Texts(most) == UNION {[1..n -> LexChars] : n \in 0..most}

\* String.prototype.slice(n)
Slice(s, n) == SubSeq(s, n + 1, Len(s))
\* String.prototype.trim()
RECURSIVE TrimStart(_)
TrimStart(s) == IF s # <<>> /\ Head(s) \in Whitespace THEN TrimStart(Tail(s)) ELSE s
RECURSIVE TrimEnd(_)
TrimEnd(s) ==
  IF s # <<>> /\ s[Len(s)] \in Whitespace THEN TrimEnd(SubSeq(s, 1, Len(s) - 1)) ELSE s
Trim(s) == TrimEnd(TrimStart(s))
\* String.prototype.startsWith
StartsWith(s, prefix) == Len(prefix) <= Len(s) /\ SubSeq(s, 1, Len(prefix)) = prefix
\* the places of the newlines of a text
NewlinePlaces(s) == {i \in 1..Len(s) : s[i] = "\n"}
Least(S) == CHOOSE i \in S : \A j \in S : i <= j
\* the end of the longest run of characters of a class that starts at i
RunEnd(s, i, class) ==
  CHOOSE j \in i..Len(s) :
    /\ \A k \in i..j : s[k] \in class
    /\ j = Len(s) \/ s[j + 1] \notin class

\* sourceCode.match(re), for each of the five expressions: the text of the
\* leftmost match, <<>> for null (no expression matches the empty text)
\* /#.+\n/
MatchPreprocessor(s) ==
  LET starts == {i \in 1..Len(s) :
                   /\ s[i] = "#" /\ i + 2 <= Len(s) /\ s[i + 1] # "\n"
                   /\ \E k \in NewlinePlaces(s) : k > i}
  IN  IF starts = {} THEN <<>>
      ELSE LET i == Least(starts)
           IN  SubSeq(s, i, Least({k \in NewlinePlaces(s) : k > i}))
\* /\/\/.*/
MatchComment(s) ==
  LET starts == {i \in 1..(Len(s) - 1) : s[i] = "/" /\ s[i + 1] = "/"}
  IN  IF starts = {} THEN <<>>
      ELSE LET i == Least(starts)
               ends == {k \in NewlinePlaces(s) : k > i}
           IN  SubSeq(s, i, IF ends = {} THEN Len(s) ELSE Least(ends) - 1)
\* /\/\*(\*(?!\/)|[^*])*\*\//
MatchBlockComment(s) ==
  LET closes(i) == {k \in (i + 2)..(Len(s) - 1) : s[k] = "*" /\ s[k + 1] = "/"}
      starts == {i \in 1..(Len(s) - 1) :
                   s[i] = "/" /\ s[i + 1] = "*" /\ closes(i) # {}}
  IN  IF starts = {} THEN <<>>
      ELSE LET i == Least(starts) IN SubSeq(s, i, Least(closes(i)) + 1)
\* /[a-zA-Z_]\w*\b/
MatchIdentifier(s) ==
  LET starts == {i \in 1..Len(s) : s[i] \in Letters}
  IN  IF starts = {} THEN <<>>
      ELSE LET i == Least(starts) IN SubSeq(s, i, RunEnd(s, i, WordChars))
\* /[0-9]+\b/
MatchConstant(s) ==
  LET starts == {i \in 1..Len(s) :
                   /\ s[i] \in Digits
                   /\ LET j == RunEnd(s, i, Digits)
                      IN  j = Len(s) \/ s[j + 1] \notin WordChars}
  IN  IF starts = {} THEN <<>>
      ELSE LET i == Least(starts) IN SubSeq(s, i, RunEnd(s, i, Digits))
\* (text.match(/\n/) || []).length: the expression is not global, so the
\* match array has one entry when the text holds a newline
NewlineMatches(text) == IF NewlinePlaces(text) = {} THEN 0 ELSE 1

\* the head of an iteration of tokenize's loop: the inner loop over leading
\* newlines, then the two trims
RECURSIVE SkipNewlines(_, _)
SkipNewlines(source, line) ==
  IF StartsWith(source, <<"\n">>) THEN SkipNewlines(Slice(source, 1), line + 1)
  ELSE [source |-> Trim(source), line |-> line]

\* the strings tokenize hands to testToken that a text over LexChars can
\* start with, in the order of the calls, and their token types
TestTokens == <<<<";">>, <<"*">>, <<"/">>>>
TestTokenType(character) ==
  CASE character = <<";">> -> "Semicolon"
    [] character = <<"*">> -> "Asterisk"
    [] character = <<"/">> -> "ForwardSlash"

\* which branch of the loop body takes a sourceCode
LexBranch(source) ==
  IF MatchPreprocessor(source) # <<>> /\ StartsWith(source, MatchPreprocessor(source))
    THEN "preprocessor"
  ELSE IF MatchComment(source) # <<>> /\ StartsWith(source, MatchComment(source))
    THEN "comment"
  ELSE IF MatchBlockComment(source) # <<>> /\ StartsWith(source, MatchBlockComment(source))
    THEN "blockComment"
  ELSE IF MatchIdentifier(source) # <<>> /\ StartsWith(source, MatchIdentifier(source))
    THEN "identifier"
  ELSE IF MatchConstant(source) # <<>> /\ StartsWith(source, MatchConstant(source))
    THEN "constant"
  ELSE IF \E i \in 1..Len(TestTokens) : StartsWith(source, TestTokens[i])
    THEN "testToken"
  ELSE "bail"

\* the place in lxInput of the first character of sourceCode, which is
\* always the tail of the input without its trailing whitespace
PlaceOf(source) == Len(TrimEnd(lxInput)) - Len(source) + 1

LexerInit ==
  /\ lxInput = <<>>
  /\ lxSource = <<>>
  /\ lxLine = 0
  /\ lxTokens = <<>>
  /\ lxStarts = <<>>
  /\ lxPc = "idle"

\* tokenize(input), up to the loop
LexTokenize ==
  /\ lxPc = "idle"
  /\ \E input \in Texts(MaxText) :
       /\ lxInput' = input
       /\ lxSource' = Trim(input)
  /\ lxLine' = 1
  /\ lxTokens' = <<>>
  /\ lxStarts' = <<>>
  /\ lxPc' = "loop"
  /\ UNCHANGED <<labelerVars, resolverVars, tacVars, codegenVars, programVars, parserVars, driverVars,
               machineVars, produceVars>>

\* an iteration that skips a preprocessor line, a comment or a block comment
LexSkip ==
  /\ lxPc = "loop"
  /\ lxSource # <<>>
  /\ \E h \in {SkipNewlines(lxSource, lxLine)} :
       /\ LexBranch(h.source) \in {"preprocessor", "comment", "blockComment"}
       /\ \E text \in {CASE LexBranch(h.source) = "preprocessor" -> MatchPreprocessor(h.source)
                         [] LexBranch(h.source) = "comment" -> MatchComment(h.source)
                         [] LexBranch(h.source) = "blockComment" -> MatchBlockComment(h.source)} :
            /\ lxLine' = h.line + NewlineMatches(text)
            /\ lxSource' = Slice(h.source, Len(text))
  /\ UNCHANGED <<lxInput, lxTokens, lxStarts, lxPc>>
  /\ UNCHANGED <<labelerVars, resolverVars, tacVars, codegenVars, programVars, parserVars, driverVars,
               machineVars, produceVars>>

\* an iteration that pushes an Identifier or a Constant (no text over
\* LexChars is a reserved keyword)
LexWord ==
  /\ lxPc = "loop"
  /\ lxSource # <<>>
  /\ \E h \in {SkipNewlines(lxSource, lxLine)} :
       /\ LexBranch(h.source) \in {"identifier", "constant"}
       /\ \E text \in {IF LexBranch(h.source) = "identifier"
                       THEN MatchIdentifier(h.source) ELSE MatchConstant(h.source)} :
            /\ lxTokens' = Append(lxTokens,
                 [type |-> IF LexBranch(h.source) = "identifier" THEN "Identifier"
                           ELSE "Constant",
                  value |-> text, line |-> h.line])
            /\ lxStarts' = Append(lxStarts, PlaceOf(h.source))
            /\ lxSource' = Trim(Slice(h.source, Len(text)))
       /\ lxLine' = h.line
  /\ UNCHANGED <<lxInput, lxPc>>
  /\ UNCHANGED <<labelerVars, resolverVars, tacVars, codegenVars, programVars, parserVars, driverVars,
               machineVars, produceVars>>

\* an iteration in which a call of testToken succeeds
LexTestToken ==
  /\ lxPc = "loop"
  /\ lxSource # <<>>
  /\ \E h \in {SkipNewlines(lxSource, lxLine)} :
       /\ LexBranch(h.source) = "testToken"
       /\ \E i \in 1..Len(TestTokens) :
            /\ StartsWith(h.source, TestTokens[i])
            /\ \A j \in 1..(i - 1) : ~StartsWith(h.source, TestTokens[j])
            /\ lxTokens' = Append(lxTokens,
                 [type |-> TestTokenType(TestTokens[i]), value |-> TestTokens[i],
                  line |-> h.line])
            /\ lxStarts' = Append(lxStarts, PlaceOf(h.source))
            /\ lxSource' = Slice(h.source, Len(TestTokens[i]))
       /\ lxLine' = h.line
  /\ UNCHANGED <<lxInput, lxPc>>
  /\ UNCHANGED <<labelerVars, resolverVars, tacVars, codegenVars, programVars, parserVars, driverVars,
               machineVars, produceVars>>

\* an iteration in which nothing matches: bail
LexBail ==
  /\ lxPc = "loop"
  /\ lxSource # <<>>
  /\ \E h \in {SkipNewlines(lxSource, lxLine)} :
       /\ LexBranch(h.source) = "bail"
       /\ lxSource' = h.source
       /\ lxLine' = h.line
  /\ lxPc' = "bail"
  /\ UNCHANGED <<lxInput, lxTokens, lxStarts>>
  /\ UNCHANGED <<labelerVars, resolverVars, tacVars, codegenVars, programVars, parserVars, driverVars,
               machineVars, produceVars>>

\* the end of the loop: the EOF token, which has no line (0 here)
LexEOF ==
  /\ lxPc = "loop"
  /\ lxSource = <<>>
  /\ lxTokens' = Append(lxTokens, [type |-> "EOF", value |-> "End of file", line |-> 0])
  /\ lxStarts' = Append(lxStarts, Len(lxInput) + 1)
  /\ lxPc' = "done"
  /\ UNCHANGED <<lxInput, lxSource, lxLine>>
  /\ UNCHANGED <<labelerVars, resolverVars, tacVars, codegenVars, programVars, parserVars, driverVars,
               machineVars, produceVars>>

LexerNext ==
  \/ LexTokenize
  \/ LexSkip
  \/ LexWord
  \/ LexTestToken
  \/ LexBail
  \/ LexEOF

\* ====================================================================
\* The code of one function, run before and after pass C
\* ====================================================================
\* The machine: the four registers, the stack slots of the frame, the
\* condition flags, the place of the next instruction and the labels jumped
\* to so far. The flags are what a signed comparison needs: zf (equal) and
\* lt (SF # OF, less).
Registers == {AX, DX, R10, R11}
Flags(zf, lt) == [zf |-> zf, lt |-> lt]
Machine(ip, reg, stack, flags, status, taken) ==
  [ip |-> ip, reg |-> reg, stack |-> stack, flags |-> flags, status |-> status,
   taken |-> taken]

\* the value of an operand, and the machine after a write to an operand
Val(m, operand) ==
  CASE operand.kind = "Imm" -> operand.value
    [] operand.kind = "Reg" -> m.reg[operand.register]
    [] operand.kind = "Stack" -> m.stack[operand.value]
Put(m, operand, v) ==
  CASE operand.kind = "Reg" -> [m EXCEPT !.reg[operand.register] = v]
    [] operand.kind = "Stack" -> [m EXCEPT !.stack[operand.value] = v]
\* the condition codes of enum ConditionFlags, after a Cmp that set the
\* flags from b - a
Holds(condition, flags) ==
  CASE condition = "e" -> flags.zf
    [] condition = "ne" -> ~flags.zf
    [] condition = "l" -> flags.lt
    [] condition = "le" -> flags.lt \/ flags.zf
    [] condition = "g" -> ~flags.lt /\ ~flags.zf
    [] condition = "ge" -> ~flags.lt
\* the flags an arithmetic instruction leaves, taken from its result
ResultFlags(v) == Flags(v = 0, v < 0)
\* signed division as idiv does it: the quotient truncated towards zero
Quotient(x, y) ==
  LET q == Abs(x) \div Abs(y) IN IF (x < 0) # (y < 0) THEN 0 - q ELSE q
Remainder(x, y) == x - y * Quotient(x, y)
\* the place of Label(symbol) in a list
LabelPlace(code, symbol) ==
  CHOOSE i \in 1..Len(code) : code[i].kind = "Label" /\ code[i].symbol = symbol
Advance(m) == [m EXCEPT !.ip = @ + 1]
JumpTo(code, m, label) ==
  [m EXCEPT !.ip = LabelPlace(code, label), !.taken = Append(@, label)]

\* one instruction, as emit (src/emit.ts) prints it: `op operand1, operand2`
\* has operand2 as its destination
Step(code, m) ==
  IF m.status # "running" THEN m
  ELSE IF m.ip > Len(code) THEN [m EXCEPT !.status = "end"]
  ELSE LET ins == code[m.ip] IN
    CASE ins.kind = "Mov" -> Advance(Put(m, ins.destination, Val(m, ins.source)))
      [] ins.kind = "UnaryOperation" ->
           IF ins.operator = "-"
           THEN Advance([Put(m, ins.operand, 0 - Val(m, ins.operand))
                           EXCEPT !.flags = ResultFlags(0 - Val(m, ins.operand))])
           ELSE Advance(Put(m, ins.operand, 0 - Val(m, ins.operand) - 1))
      [] ins.kind = "BinaryOperation" ->
           LET x == Val(m, ins.operand2)
               y == Val(m, ins.operand1)
               v == CASE ins.operator = "+" -> x + y
                      [] ins.operator = "-" -> x - y
                      [] ins.operator = "*" -> x * y
           IN  Advance([Put(m, ins.operand2, v) EXCEPT !.flags = ResultFlags(v)])
      [] ins.kind = "Cdq" ->
           Advance(Put(m, Reg(DX), IF m.reg[AX] < 0 THEN 0 - 1 ELSE 0))
      [] ins.kind = "Idiv" ->
           \* a zero divisor, or a dividend edx:eax that cdq did not make, traps
           IF Val(m, ins.operand) = 0 \/ m.reg[DX] # (IF m.reg[AX] < 0 THEN 0 - 1 ELSE 0)
           THEN [m EXCEPT !.status = "fault"]
           ELSE LET x == m.reg[AX]
                    y == Val(m, ins.operand)
                IN  Advance([m EXCEPT !.reg[AX] = Quotient(x, y),
                                      !.reg[DX] = Remainder(x, y),
                                      !.flags = ResultFlags(Quotient(x, y))])
      [] ins.kind = "Cmp" ->
           Advance([m EXCEPT !.flags = Flags(Val(m, ins.b) = Val(m, ins.a),
                                             Val(m, ins.b) < Val(m, ins.a))])
      [] ins.kind = "SetCC" ->
           \* the low byte of the operand is written, the rest is kept
           LET old == Val(m, ins.operand)
           IN  Advance(Put(m, ins.operand,
                           old - (old % 256) + Bool(Holds(ins.condition, m.flags))))
      [] ins.kind = "Jmp" -> JumpTo(code, m, ins.label)
      [] ins.kind = "JmpCC" ->
           IF Holds(ins.condition, m.flags) THEN JumpTo(code, m, ins.label) ELSE Advance(m)
      [] ins.kind \in {"Label", "AllocateStack"} -> Advance(m)
      [] ins.kind = "Ret" -> [m EXCEPT !.status = "returned"]
RECURSIVE StepN(_, _, _)
StepN(code, m, n) ==
  IF n = 0 THEN m ELSE StepN(code, Only({Step(code, x) : x \in {m}}), n - 1)

\* the bodies compiled: `return <expr>;` over the source variables a and b
\* and a constant, for every operator
MOperands == {TVarA, TVarB, NumLiteral(2)}
MExprs ==
  {BinaryExpr(op, l, r) : op \in {"==", "!=", "<", "<=", ">", ">=", "+", "-", "*", "/", "%"},
                          l \in MOperands, r \in MOperands}
  \cup {UnaryExpr(op, TVarA) : op \in {"-", "~", "!"}}
  \cup {BinaryExpr(op, TVarA, TVarB) : op \in {"&&", "||"}}
  \cup {ConditionalExpr(BinaryExpr("<", TVarA, TVarB), NumLiteral(2), TVarB),
        Assignment(TVarA, BinaryExpr("*", TVarA, TVarB)),
        BinaryExpr("<=", BinaryExpr("-", TVarA, NumLiteral(2)), BinaryExpr("*", TVarB, TVarB))}
MValues == (0 - 1)..MaxSlot
\* what the registers and the slots of the temporaries hold at the start
MJunk == {0, 7}

\* the stack slot pass B gave a symbol: the operand that stands in mIn
\* where PseudoReg(symbol) stands in mSel
SlotOf(symbol) ==
  LET before == AllOperands(mSel)
      after == AllOperands(SkipAllocateStack(mIn))
  IN  after[CHOOSE i \in 1..Len(before) : before[i] = PseudoReg(symbol)]
\* the offsets of the Stack operands of a list
Offsets(code) ==
  LET ops == AllOperands(code) IN {ops[i].value : i \in {j \in 1..Len(ops) : ops[j].kind = "Stack"}}
\* the machine at the start: a holds x, b holds y, everything else junk
StartMachine(sel, code, x, y, junk) ==
  LET before == AllOperands(sel)
      after == AllOperands(SkipAllocateStack(code))
      holds(o, symbol) == \E i \in 1..Len(before) :
                             before[i] = PseudoReg(symbol) /\ after[i] = Stack(o)
  IN  Machine(1, [r \in Registers |-> junk],
              [o \in Offsets(code) |->
                 IF holds(o, TVarA.symbol) THEN x
                 ELSE IF holds(o, TVarB.symbol) THEN y ELSE junk],
              ResultFlags(junk), "running", <<>>)

MachineInit ==
  /\ mTas = <<>>
  /\ mSel = <<>>
  /\ mIn = <<>>
  /\ mOut = <<>>
  /\ mA = Machine(1, <<>>, <<>>, ResultFlags(0), "idle", <<>>)
  /\ mB = Machine(1, <<>>, <<>>, ResultFlags(0), "idle", <<>>)
  /\ mLast = 0
  /\ mPc = "idle"

\* generateTas and generateAsmTree on one function, and the machines set
\* to the first instruction of the lists before and after pass C
MachineCompile ==
  /\ mPc = "idle"
  /\ \E expr \in MExprs, x \in MValues, y \in MValues, junk \in MJunk :
       \E tas \in {emitTackyBlockItem(SBlock(ReturnStatement(expr)), NewTasGenerator).instructions} :
       \E sel \in {generateFunction(tas)} :
       \E in \in {replacePseudoregisters(sel)} :
       \E start \in {StartMachine(sel, in, x, y, junk)} :
         /\ mTas' = tas
         /\ mSel' = sel
         /\ mIn' = in
         /\ mOut' = fixupInvalidInstructions(in)
         /\ mA' = start
         /\ mB' = start
  /\ mLast' = 0
  /\ mPc' = "run"
  /\ UNCHANGED <<labelerVars, resolverVars, tacVars, codegenVars, programVars, parserVars, driverVars,
                 lexerVars, produceVars>>

\* the next instruction of mIn on the one machine, the instructions pass C
\* pushed for it on the other
MachineExecute ==
  /\ mPc = "run"
  /\ mA.status = "running"
  /\ mA.ip <= Len(mIn)
  /\ mA' = Step(mIn, mA)
  /\ mB' = StepN(mOut, mB, Len(fixupInstruction(mIn[mA.ip])))
  /\ mLast' = mA.ip
  /\ UNCHANGED <<mTas, mSel, mIn, mOut, mPc>>
  /\ UNCHANGED <<labelerVars, resolverVars, tacVars, codegenVars, programVars, parserVars, driverVars,
                 lexerVars, produceVars>>

\* the run is over: a Ret or a trap
MachineHalt ==
  /\ mPc = "run"
  /\ mA.status # "running" \/ mA.ip > Len(mIn)
  /\ mPc' = "done"
  /\ UNCHANGED <<mTas, mSel, mIn, mOut, mA, mB, mLast>>
  /\ UNCHANGED <<labelerVars, resolverVars, tacVars, codegenVars, programVars, parserVars, driverVars,
                 lexerVars, produceVars>>

MachineNext ==
  \/ MachineCompile
  \/ MachineExecute
  \/ MachineHalt

\* the place in mOut of the first instruction pushed for mIn[i]
RECURSIVE GroupStart(_)
GroupStart(i) == IF i = 1 THEN 1 ELSE GroupStart(i - 1) + Len(fixupInstruction(mIn[i - 1]))
\* the place in mIn of the last instruction selected for mTas[t]
RECURSIVE SelectedEnd(_)
SelectedEnd(t) ==
  IF t = 0 THEN (IF mIn # <<>> /\ Head(mIn).kind = "AllocateStack" THEN 1 ELSE 0)
  ELSE SelectedEnd(t - 1) + Len(generateInstruction(mTas[t]))
\* the value of a TAC value in the machine after pass C
TasVal(m, v) == IF v.kind = "Constant" THEN v.value ELSE Val(m, SlotOf(v.symbol))
Relational == {"==", "!=", "<", "<=", ">", ">="}

\* ====================================================================
\* Parser.produceAst (src/parser.ts): which tokens each call consumes
\* ====================================================================
\* The nodes built do not decide what is consumed; the model keeps the
\* tokens and, for the calls in progress, what each still has to do.
\*   expect(type)        a call of expect
\*   functions           the loop of produceAst
\*   block               a loop over block items, of parseFunction or Compound
\*   declInit            parseDeclaration after the Identifier
\*   statement           a call of parseStatement
\*   else                the If case after the then statement
\*   forInit             a call of parseForInit
\*   optExpr(type)       a call of parseOptionalExpr
\*   factor              a call of parseFactor
\*   exprLoop(min)       the loop of parseExpr
\* A loop keeps in `seen` the number of tokens left when its last iteration
\* began (NoCount before the first).
NoCount == 0 - 1
Todo(kind, type, min, seen) == [kind |-> kind, type |-> type, min |-> min, seen |-> seen]
TExpect(type) == Todo("expect", type, 0, NoCount)
TLoop(kind) == Todo(kind, "", 0, NoCount)
TDo(kind) == Todo(kind, "", 0, NoCount)
TOptExpr(type) == Todo("optExpr", type, 0, NoCount)
TExprLoop(min) == Todo("exprLoop", "", min, NoCount)
\* parseExpr(min): parseFactor, then the loop
TExpr(min) == <<TDo("factor"), TExprLoop(min)>>
\* parseDeclaration
TDeclaration ==
  <<TExpect("Int"), TExpect("Identifier"), TDo("declInit"), TExpect("Semicolon")>>
\* parseFunction
TFunction ==
  <<TExpect("Int"), TExpect("Identifier"), TExpect("OpenParenthesis"), TExpect("Void"),
    TExpect("CloseParenthesis"), TExpect("OpenBrace"), TLoop("block")>>

\* faulty variant: the Null statement leaves its `;` in the tokens
StatementCase_NullKept(type) ==
  CASE type = "Return" -> [consume |-> TRUE, todo |-> TExpr(0) \o <<TExpect("Semicolon")>>]
    [] type = "Semicolon" -> [consume |-> FALSE, todo |-> <<>>]
    [] type = "If" ->
         [consume |-> TRUE,
          todo |-> <<TExpect("OpenParenthesis")>> \o TExpr(0)
                     \o <<TExpect("CloseParenthesis"), TDo("statement"), TDo("else")>>]
    [] type = "OpenBrace" -> [consume |-> TRUE, todo |-> <<TLoop("block")>>]
    [] type = "While" ->
         [consume |-> TRUE,
          todo |-> <<TExpect("OpenParenthesis")>> \o TExpr(0)
                     \o <<TExpect("CloseParenthesis"), TDo("statement")>>]
    [] type = "Do" ->
         [consume |-> TRUE,
          todo |-> <<TDo("statement"), TExpect("While"), TExpect("OpenParenthesis")>>
                     \o TExpr(0) \o <<TExpect("CloseParenthesis"), TExpect("Semicolon")>>]
    [] type = "For" ->
         [consume |-> TRUE,
          todo |-> <<TExpect("OpenParenthesis"), TDo("forInit"), TOptExpr("Semicolon"),
                     TExpect("Semicolon"), TOptExpr("CloseParenthesis"),
                     TExpect("CloseParenthesis"), TDo("statement")>>]
    [] type \in {"Break", "Continue"} ->
         [consume |-> TRUE, todo |-> <<TExpect("Semicolon")>>]
    [] OTHER -> [consume |-> FALSE, todo |-> TExpr(0) \o <<TExpect("Semicolon")>>]

\* the switch of parseStatement: whether the case consumes the token it
\* looked at, and what it does then
StatementCase(type) ==
  CASE type = "Return" -> [consume |-> TRUE, todo |-> TExpr(0) \o <<TExpect("Semicolon")>>]
    [] type = "Semicolon" -> [consume |-> TRUE, todo |-> <<>>]
    [] type = "If" ->
         [consume |-> TRUE,
          todo |-> <<TExpect("OpenParenthesis")>> \o TExpr(0)
                     \o <<TExpect("CloseParenthesis"), TDo("statement"), TDo("else")>>]
    [] type = "OpenBrace" -> [consume |-> TRUE, todo |-> <<TLoop("block")>>]
    [] type = "While" ->
         [consume |-> TRUE,
          todo |-> <<TExpect("OpenParenthesis")>> \o TExpr(0)
                     \o <<TExpect("CloseParenthesis"), TDo("statement")>>]
    [] type = "Do" ->
         [consume |-> TRUE,
          todo |-> <<TDo("statement"), TExpect("While"), TExpect("OpenParenthesis")>>
                     \o TExpr(0) \o <<TExpect("CloseParenthesis"), TExpect("Semicolon")>>]
    [] type = "For" ->
         [consume |-> TRUE,
          todo |-> <<TExpect("OpenParenthesis"), TDo("forInit"), TOptExpr("Semicolon"),
                     TExpect("Semicolon"), TOptExpr("CloseParenthesis"),
                     TExpect("CloseParenthesis"), TDo("statement")>>]
    [] type \in {"Break", "Continue"} ->
         [consume |-> TRUE, todo |-> <<TExpect("Semicolon")>>]
    [] OTHER -> [consume |-> FALSE, todo |-> TExpr(0) \o <<TExpect("Semicolon")>>]

\* the token sequences parsed. A piece is a token or the head of an If or a For. A
\* body is up to MaxTokens - 1 pieces of any type, or up to MaxTokens of the
\* pieces that open, continue and close the loops; it comes after the head
\* of a function, or (the shorter ones) alone; then the EOF token
PaTypes ==
  {"Int", "Identifier", "Constant", "OpenParenthesis", "CloseParenthesis", "OpenBrace",
   "CloseBrace", "Semicolon", "Return", "If", "Else", "While", "Do", "For", "Break",
   "Equal", "Question", "Colon", "Plus", "Minus"}
PaHead ==
  <<"Int", "Identifier", "OpenParenthesis", "Void", "CloseParenthesis", "OpenBrace">>
PaIfHead == <<"If", "OpenParenthesis", "Identifier", "CloseParenthesis">>
PaForHead == <<"For", "OpenParenthesis">>
PaPieces == {<<type>> : type \in PaTypes} \cup {PaIfHead, PaForHead}
PaCore ==
  {<<type>> : type \in {"Int", "Identifier", "OpenBrace", "CloseBrace", "Semicolon", "Else",
                        "Equal", "Plus"}}
  \cup {PaIfHead, PaForHead}
RECURSIVE PaJoin(_)
PaJoin(pieces) == IF pieces = <<>> THEN <<>> ELSE Head(pieces) \o PaJoin(Tail(pieces))
PaBodies(pieces, n) == UNION {{PaJoin(f) : f \in [1..k -> pieces]} : k \in 0..n}
PaInputs ==
  {PaHead \o body \o <<"EOF">> :
     body \in PaBodies(PaPieces, MaxTokens - 1) \cup PaBodies(PaCore, MaxTokens)}
  \cup {body \o <<"EOF">> : body \in PaBodies(PaPieces, MaxTokens - 1)}

\* the calls in progress do `todo` in place of the first thing they had to do
PaThen(todo) == paTodo' = todo \o Tail(paTodo)
\* a throw, a TypeError on a token that is not there, or bail
PaFail ==
  /\ paPc' = "failed"
  /\ UNCHANGED <<paInput, paTokens, paTodo>>
PaAt(kind) == paPc = "run" /\ paTodo # <<>> /\ Head(paTodo).kind = kind
\* the first thing to do again, as a loop whose iteration begins now
PaIterate == [Head(paTodo) EXCEPT !.seen = Len(paTokens)]

ProduceInit ==
  /\ paInput = <<>>
  /\ paTokens = <<>>
  /\ paTodo = <<>>
  /\ paPc = "idle"

\* produceAst(sourceCode), up to the loop
PaProduceAst ==
  /\ paPc = "idle"
  /\ \E tokens \in PaInputs :
       /\ paInput' = tokens
       /\ paTokens' = tokens
  /\ paTodo' = <<TLoop("functions")>>
  /\ paPc' = "run"
  /\ UNCHANGED <<labelerVars, resolverVars, tacVars, codegenVars, programVars, parserVars, driverVars,
                 lexerVars, machineVars>>

\* the test of produceAst's loop; an iteration calls parseFunction
PaFunctionLoop ==
  /\ PaAt("functions")
  /\ IF paTokens # <<>> /\ Head(paTokens) # "EOF"
     THEN /\ paTodo' = TFunction \o <<PaIterate>> \o Tail(paTodo)
          /\ UNCHANGED <<paInput, paTokens, paPc>>
     ELSE /\ paTodo' = Tail(paTodo)
          /\ paPc' = "done"
          /\ UNCHANGED <<paInput, paTokens>>
  /\ UNCHANGED <<labelerVars, resolverVars, tacVars, codegenVars, programVars, parserVars, driverVars,
                 lexerVars, machineVars>>

\* expect(type)
PaExpect ==
  /\ PaAt("expect")
  /\ IF paTokens # <<>> /\ Head(paTokens) = Head(paTodo).type
     THEN /\ paTokens' = Tail(paTokens)
          /\ PaThen(<<>>)
          /\ UNCHANGED <<paInput, paPc>>
     ELSE PaFail
  /\ UNCHANGED <<labelerVars, resolverVars, tacVars, codegenVars, programVars, parserVars, driverVars,
                 lexerVars, machineVars>>

\* the test of a loop over block items; an iteration calls parseBlockItem,
\* which calls parseDeclaration or parseStatement; the `}` that ends the
\* loop is consumed after it
PaBlockLoop ==
  /\ PaAt("block")
  /\ IF paTokens = <<>> THEN PaFail
     ELSE IF Head(paTokens) = "CloseBrace"
     THEN /\ paTokens' = Tail(paTokens)
          /\ PaThen(<<>>)
          /\ UNCHANGED <<paInput, paPc>>
     ELSE /\ PaThen((IF Head(paTokens) = "Int" THEN TDeclaration ELSE <<TDo("statement")>>)
                    \o <<PaIterate>>)
          /\ UNCHANGED <<paInput, paTokens, paPc>>
  /\ UNCHANGED <<labelerVars, resolverVars, tacVars, codegenVars, programVars, parserVars, driverVars,
                 lexerVars, machineVars>>

\* parseDeclaration: isNext(Equal, true) and the initializer
PaDeclInit ==
  /\ PaAt("declInit")
  /\ IF paTokens = <<>> THEN PaFail
     ELSE IF Head(paTokens) = "Equal"
     THEN /\ paTokens' = Tail(paTokens)
          /\ PaThen(TExpr(0))
          /\ UNCHANGED <<paInput, paPc>>
     ELSE /\ PaThen(<<>>)
          /\ UNCHANGED <<paInput, paTokens, paPc>>
  /\ UNCHANGED <<labelerVars, resolverVars, tacVars, codegenVars, programVars, parserVars, driverVars,
                 lexerVars, machineVars>>

\* parseStatement
PaParseStatement ==
  /\ PaAt("statement")
  /\ IF paTokens = <<>> THEN PaFail
     ELSE \E case \in {StatementCase(Head(paTokens))} :
            /\ paTokens' = IF case.consume THEN Tail(paTokens) ELSE paTokens
            /\ PaThen(case.todo)
            /\ UNCHANGED <<paInput, paPc>>
  /\ UNCHANGED <<labelerVars, resolverVars, tacVars, codegenVars, programVars, parserVars, driverVars,
                 lexerVars, machineVars>>

\* the If case: isNext(Else, true) and the else statement
PaElse ==
  /\ PaAt("else")
  /\ IF paTokens = <<>> THEN PaFail
     ELSE IF Head(paTokens) = "Else"
     THEN /\ paTokens' = Tail(paTokens)
          /\ PaThen(<<TDo("statement")>>)
          /\ UNCHANGED <<paInput, paPc>>
     ELSE /\ PaThen(<<>>)
          /\ UNCHANGED <<paInput, paTokens, paPc>>
  /\ UNCHANGED <<labelerVars, resolverVars, tacVars, codegenVars, programVars, parserVars, driverVars,
                 lexerVars, machineVars>>

\* parseForInit
PaParseForInit ==
  /\ PaAt("forInit")
  /\ IF paTokens = <<>> THEN PaFail
     ELSE /\ PaThen(IF Head(paTokens) = "Int" THEN TDeclaration
                    ELSE <<TOptExpr("Semicolon"), TExpect("Semicolon")>>)
          /\ UNCHANGED <<paInput, paTokens, paPc>>
  /\ UNCHANGED <<labelerVars, resolverVars, tacVars, codegenVars, programVars, parserVars, driverVars,
                 lexerVars, machineVars>>

\* parseOptionalExpr(nextToken)
PaParseOptionalExpr ==
  /\ PaAt("optExpr")
  /\ IF paTokens = <<>> THEN PaFail
     ELSE /\ PaThen(IF Head(paTokens) # Head(paTodo).type THEN TExpr(0) ELSE <<>>)
          /\ UNCHANGED <<paInput, paTokens, paPc>>
  /\ UNCHANGED <<labelerVars, resolverVars, tacVars, codegenVars, programVars, parserVars, driverVars,
                 lexerVars, machineVars>>

\* parseFactor
PaParseFactor ==
  /\ PaAt("factor")
  /\ IF paTokens = <<>> THEN PaFail
     ELSE IF Head(paTokens) \in {"Identifier", "Constant"}
     THEN /\ paTokens' = Tail(paTokens)
          /\ PaThen(<<>>)
          /\ UNCHANGED <<paInput, paPc>>
     ELSE IF Head(paTokens) = "OpenParenthesis"
     THEN /\ paTokens' = Tail(paTokens)
          /\ PaThen(TExpr(0) \o <<TExpect("CloseParenthesis")>>)
          /\ UNCHANGED <<paInput, paPc>>
     ELSE IF Head(paTokens) \in {"Minus", "Tilde", "LogicalNot"}
     THEN /\ paTokens' = Tail(paTokens)
          /\ PaThen(<<TDo("factor")>>)
          /\ UNCHANGED <<paInput, paPc>>
     ELSE /\ paTokens' = Tail(paTokens)
          /\ paPc' = "failed"
          /\ UNCHANGED <<paInput, paTodo>>
  /\ UNCHANGED <<labelerVars, resolverVars, tacVars, codegenVars, programVars, parserVars, driverVars,
                 lexerVars, machineVars>>

\* the test of parseExpr's loop and an iteration up to its recursive call
PaExprLoop ==
  /\ PaAt("exprLoop")
  /\ IF paTokens = <<>> THEN PaFail
     ELSE IF /\ Head(paTokens) \in BinOpTokens
             /\ precedence(nextBinOp(Head(paTokens))) >= Head(paTodo).min
     THEN /\ paTokens' = Tail(paTokens)
          /\ PaThen((CASE Head(paTokens) = "Equal" -> TExpr(precedence("="))
                       [] Head(paTokens) = "Question" ->
                            TExpr(0) \o <<TExpect("Colon")>> \o TExpr(precedence("?"))
                       [] OTHER -> TExpr(precedence(nextBinOp(Head(paTokens))) + 1))
                    \o <<PaIterate>>)
          /\ UNCHANGED <<paInput, paPc>>
     ELSE /\ PaThen(<<>>)
          /\ UNCHANGED <<paInput, paTokens, paPc>>
  /\ UNCHANGED <<labelerVars, resolverVars, tacVars, codegenVars, programVars, parserVars, driverVars,
                 lexerVars, machineVars>>

ProduceNext ==
  \/ PaProduceAst
  \/ PaFunctionLoop
  \/ PaExpect
  \/ PaBlockLoop
  \/ PaDeclInit
  \/ PaParseStatement
  \/ PaElse
  \/ PaParseForInit
  \/ PaParseOptionalExpr
  \/ PaParseFactor
  \/ PaExprLoop

\* at the test of a loop, fewer tokens are left than when the iteration
\* before began
IterationConsumes ==
  (paPc = "run" /\ paTodo # <<>> /\ Head(paTodo).seen # NoCount) =>
    Len(paTokens) < Head(paTodo).seen

\* ====================================================================
\* Specifications: each pass runs on its own instance, as in
\* semanticAnalysis(); the state of the other passes stays as constructed.
\* ====================================================================
Init ==
  /\ LabelerInit
  /\ ResolverInit
  /\ TacInit
  /\ CodegenInit
  /\ ProgramInit
  /\ ParserInit
  /\ DriverInit
  /\ LexerInit
  /\ MachineInit
  /\ ProduceInit

SpecResolve == Init /\ [][ResolverNext]_vars

SpecLabel == Init /\ [][LabelerNext]_vars

SpecTac == Init /\ [][TacNext]_vars

SpecCodegen == Init /\ [][CodegenNext]_vars

SpecProgram == Init /\ [][ProgramNext]_vars

SpecParse == Init /\ [][ParserNext]_vars

SpecDriver == Init /\ [][DriverNext]_vars

SpecLex == Init /\ [][LexerNext]_vars

SpecMachine == Init /\ [][MachineNext]_vars

\* produceAst runs to its end: no call is left waiting while it can go on
SpecProduce == Init /\ [][ProduceNext]_vars /\ WF_vars(ProduceNext)

\* ====================================================================
\* Claims
\* ====================================================================
\* C1: after labelLoops succeeds, each Break and Continue carries the label
\* of the innermost loop statement whose body contains it.
C1_InnermostLabel ==
  lPc = "done" => \A n \in lNodes : n.label = n.enclosing

\* C7: the symbols of all Declaration nodes of the program are pairwise
\* distinct, and every Variable expression the resolver has passed without
\* failing carries the symbol of a Declaration node of the function it is in.
C7_DistinctSymbols ==
  /\ \A i, j \in 1..Len(rDecls) : i # j => rDecls[i].symbol # rDecls[j].symbol
  /\ \A b \in rLast.binds :
       \E k \in 1..Len(rDecls) : rDecls[k].func = rFunc /\ rDecls[k].symbol = b.symbol

\* C8: every resolved Variable reference carries the symbol of the innermost
\* declaration of its source name among the blocks open at that point: an
\* inner redeclaration shadows the outer one, and once the inner block has
\* ended the name refers to the outer declaration again.
C8_InnermostDeclaration ==
  \A b \in rLast.binds : b.expected # NoSymbol => b.symbol = b.expected

\* C9: a Declaration is rejected as a duplicate exactly when its source name
\* is already declared in the same block; a Declaration whose name is not
\* declared in its block (declared in an enclosing block or nowhere) fails only
\* if its initializer does, and otherwise gets a symbol no Declaration had.
C9_DuplicateExactly ==
  rLast.kind = "Declaration" =>
    /\ (rPc = "failed" /\ rErr = "Duplicate") <=> rLast.dup
    /\ ~rLast.dup =>
         /\ rPc = "failed" => rErr \in {"Undeclared", "InvalidLvalue"}
         /\ rPc # "failed" => rLast.fresh

\* inside an inner block the outer name was declared again (accepted, with
\* a new symbol) and then once more in the same block (rejected)
C9_Witness ==
  /\ rPc = "failed"
  /\ rErr = "Duplicate"
  /\ rLast.dup /\ rLast.outer
  /\ Len(rDecls) = 2
  /\ rDecls[1].symbol[2] = rDecls[2].symbol[2]
  /\ rDecls[1].symbol # rDecls[2].symbol

\* C10: an expression that mentions a source name with no declaration among
\* the open blocks at that point makes resolution fail, whatever was declared
\* later, in a block that has ended or in another function.
C10_UndeclaredFails ==
  rLast.undeclared # {} => rPc = "failed" /\ rErr \in {"Undeclared", "InvalidLvalue"}

\* C2: the TAC emitted for `left || right`, run to its Return, returns 1 when
\* either operand evaluates to a non-zero value and 0 only when both are zero.
C2_LogicalOrValue ==
  (tPc = "returned" /\ tExpr.kind = "BinaryExpr" /\ tExpr.operator = "||") =>
    LET l == CEval(tExpr.left, tIn)
        r == CEval(tExpr.right, l.env)
    IN  tRet = Bool(l.v # 0 \/ r.v # 0)

\* C11: an expression holding, at any depth, an Assignment whose left side
\* is not a Variable node makes resolution fail, wherever the expression
\* stands (statement, initializer, condition, For init or post).
C11_InvalidLvalueFails ==
  rLast.invalid => rPc = "failed" /\ rErr \in {"InvalidLvalue", "Undeclared"}

\* C12: labelling fails on a Break or Continue exactly when no loop statement
\* of its function is open around it, also under If and Compound statements
\* and after a loop statement that is already complete.
C12_JumpOutsideLoopFails ==
  lLast.kind \in {"Break", "Continue"} => (lPc = "failed" <=> ~lLast.inLoop)

\* a Break in an If outside every loop, after a loop of the function was
\* labelled and left, makes labelling fail
C12_Witness ==
  /\ lPc = "failed"
  /\ lLast.kind = "Break"
  /\ loopLabelCounter >= 1
  /\ Len(lStack) = 2
  /\ Last(lStack).kind = "If"

\* C13: in the TAC of each function of a labelled program no two Label
\* instructions have the same name, and the label of every Jump, JumpIfZero
\* and JumpIfNotZero is a Label instruction of the same function, once.
C13_LabelsAndTargets ==
  pPc = "tas" =>
    \A f \in 1..Len(pTas) :
      LET code == pTas[f] IN
      /\ \A i, j \in 1..Len(code) :
           (code[i].kind = "Label" /\ code[j].kind = "Label" /\ i # j)
             => code[i].symbol # code[j].symbol
      /\ \A i \in 1..Len(code) :
           code[i].kind \in {"Jump", "JumpIfZero", "JumpIfNotZero"}
             => Cardinality(LabelPlaces(code, code[i].label)) = 1

\* two functions, each with a loop left by a Break and labels made for an
\* If or an && besides the loop's
C13_Witness ==
  /\ pPc = "tas"
  /\ Len(pTas) = 2
  /\ \A f \in 1..2 :
       /\ \E i \in 1..Len(pTas[f]) :
            /\ pTas[f][i].kind = "Jump"
            /\ Len(pTas[f][i].label.symbol) = 3
            /\ pTas[f][i].label.symbol[3] = "break"
       /\ \E i \in 1..Len(pTas[f]) :
            pTas[f][i].kind = "Label" /\ Head(pTas[f][i].symbol) \in {"end", "false"}

\* C14: in the TAC of `l && r` (`l || r`) the jump on l's value is a
\* JumpIfZero (JumpIfNotZero) that comes before every instruction evaluating
\* r, its label is placed once, after them, and no instruction evaluating r
\* is executed in a run where l's value is zero (non-zero).
C14_ShortCircuit ==
  (tPc \in {"exec", "returned"} /\ tExpr.kind = "BinaryExpr"
     /\ tExpr.operator \in {"&&", "||"}) =>
    LET p == LogicalParts(tExpr)
        and == tExpr.operator = "&&"
    IN  /\ tCode[p.jump - 1].kind = "Copy"
        /\ tCode[p.jump - 1].destination = p.result1
        /\ tCode[p.jump].kind = IF and THEN "JumpIfZero" ELSE "JumpIfNotZero"
        /\ tCode[p.jump].condition = p.result1
        /\ tCode[p.jump].label = p.falseLabel
        /\ Cardinality(LabelPlaces(tCode, p.falseLabel)) = 1
        /\ \A k \in LabelPlaces(tCode, p.falseLabel) : k > p.last /\ k > p.jump
        /\ (tPc = "exec" /\ tIp \in p.first..p.last) =>
             IF and THEN tEnv[p.result1.symbol] # 0 ELSE tEnv[p.result1.symbol] = 0

\* `a && (b = 2)` has run to its Return with a = 0 and b was not assigned
C14_Witness ==
  /\ tPc = "returned"
  /\ tExpr = BinaryExpr("&&", TVarA, Assignment(TVarB, NumLiteral(2)))
  /\ tIn[TVarA.symbol] = 0
  /\ tIn[TVarB.symbol] = 1
  /\ tEnv[TVarB.symbol] = 1

\* C15: the TAC emitted for `left && right`, run to its Return, returns 1
\* when both operands were evaluated to a non-zero value (the values the run
\* copied into the temporaries of the two operands) and 0 otherwise, and it
\* has written the result variable exactly once; for operands without ||
\* the value is the one C gives the expression.
C15_LogicalAndValue ==
  (tPc = "returned" /\ tExpr.kind = "BinaryExpr" /\ tExpr.operator = "&&") =>
    LET p == LogicalParts(tExpr)
        left == tEnv[p.result1.symbol]
        rightRun == p.result2.symbol \in DOMAIN tEnv
        l == CEval(tExpr.left, tIn)
        r == CEval(tExpr.right, l.env)
    IN  /\ tRet = Bool(left # 0 /\ rightRun /\ tEnv[p.result2.symbol] # 0)
        /\ left = 0 => ~rightRun
        /\ tWrites = 1
        /\ ~HasLogicalOr(tExpr) => tRet = Bool(l.v # 0 /\ r.v # 0)

\* `(a && b) && 2` has run with a and b non-zero and returned 1
C15_Witness ==
  /\ tPc = "returned"
  /\ tExpr = BinaryExpr("&&", BinaryExpr("&&", TVarA, TVarB), NumLiteral(2))
  /\ tIn[TVarA.symbol] = 1
  /\ tIn[TVarB.symbol] = 2
  /\ tRet = 1
  /\ tWrites = 1

\* C16: parseExpr groups binary operators other than `=` and `?` by the
\* precedence table: the tree keeps the tokens in order, no operand of a
\* binary operator is an unparenthesised assignment or conditional, a right
\* operand binds strictly tighter than its operator (equal precedence groups
\* to the left) and a left operand binds at least as tightly.
C16_PrecedenceGrouping ==
  psPc = "parsed" =>
    /\ InOrder(psAst) = psTokens
    /\ \A e \in SubExprs(psAst) :
         e.kind = "BinaryExpr" =>
           /\ RootLevel(e.left) >= Level(e.operator)
           /\ RootLevel(e.right) > Level(e.operator)
\* `x1 - 2 - x3 * 4 < x5` is ((x1 - 2) - (x3 * 4)) < x5
C16_Witness ==
  /\ psPc = "parsed"
  /\ psAst = BinaryExpr("<",
               BinaryExpr("-", BinaryExpr("-", Variable(<<"x", 1>>), NumLiteral(2)),
                               BinaryExpr("*", Variable(<<"x", 3>>), NumLiteral(4))),
               Variable(<<"x", 5>>))

\* C17: `=` and `?:` group to the right, and the middle operand of `?:` is a
\* whole expression: a statement whose `?` and `:` match always parses, the
\* tree keeps the tokens in order, the target of an assignment and the
\* condition of a conditional bind strictly tighter than their operator, and
\* the false branch of a conditional is no assignment.
C17_RightAssociative ==
  /\ psPc = "parsed" =>
       /\ InOrder(psAst) = psTokens
       /\ \A e \in SubExprs(psAst) :
            /\ e.kind = "Assignment" => RootLevel(e.left) > Level("=")
            /\ e.kind = "Conditional" =>
                 /\ RootLevel(e.condition) > Level("?")
                 /\ RootLevel(e.ifFalse) >= Level("?")
  /\ psPc = "failed" => ~Matched(psTokens)
\* `x1 ? 2 : x3 ? 4 : x5` is x1 ? 2 : (x3 ? 4 : x5)
C17_Witness ==
  /\ psPc = "parsed"
  /\ psAst = ConditionalExpr(Variable(<<"x", 1>>), NumLiteral(2),
               ConditionalExpr(Variable(<<"x", 3>>), NumLiteral(4), Variable(<<"x", 5>>)))

\* C18: in the full pipeline out.asm is written only by emit, after lexing,
\* parsing, variable resolution, loop labeling, TAC generation and the three
\* codegen passes of every function have returned in that order; once a
\* stage has failed the process is over and out.asm is never written.
C18_EmitAfterAllPasses ==
  /\ dPc = "emit" => dLog = FullPipeline(dSource.funcs)
  /\ dOut = "written" =>
       /\ dLog = FullPipeline(dSource.funcs) \o <<"emit">>
       /\ dSource.fault = NoFault
  /\ dSource.fault # NoFault => dOut = "absent" /\ dPc # "done"
C18_Witness ==
  /\ dOut = "written"
  /\ dSource.funcs = MaxFuncs
  /\ Len(dLog) = 6 + 3 * MaxFuncs

\* C19: a For has one scope of its own for init, condition, post and body:
\* a declaration in the init is never a duplicate, whatever the enclosing
\* blocks declare; a reference to its name in the condition, the post or the
\* body carries the init declaration's symbol; in the statement after the For
\* the name carries the symbol of the enclosing declaration again, and
\* resolution fails if there is none.
C19_ForScope ==
  /\ (rLast.kind = "Declaration" /\ RTop.kind = "For") =>
       /\ rErr # "Duplicate"
       /\ rPc # "failed" =>
            /\ rLast.fresh
            /\ DOMAIN rBlocks[RTop.scope] = {rLast.name}
            /\ rBlocks[RTop.scope][rLast.name] = rLast.symbol
  /\ (rLast.kind = "Expr" /\ rPc # "failed") =>
       \A i \in 1..Len(rStack) : \A b \in rLast.binds :
         (/\ rStack[i].kind = "For"
          /\ b.name \in DOMAIN rBlocks[rStack[i].scope]
          /\ \A j \in (rStack[i].scope + 1)..Len(rBlocks) : b.name \notin DOMAIN rBlocks[j])
           => b.symbol = rBlocks[rStack[i].scope][b.name]
  /\ (rLast.kind = "Expr" /\ rLast.closed # EmptyBlock) =>
       /\ \A b \in rLast.binds :
            b.name \in DOMAIN rLast.closed =>
              /\ b.symbol # rLast.closed[b.name]
              /\ b.symbol = Visible(rBlocks, Len(rBlocks), b.name)
       /\ (rLast.undeclared \cap DOMAIN rLast.closed # {}) => rPc = "failed"
\* `int a; for (int a; ...; ...) ...; a;`: the last `a` is the first declaration
C19_Witness ==
  /\ rLast.kind = "Expr"
  /\ rPc = "run"
  /\ Len(rDecls) = 2
  /\ rDecls[1].symbol # rDecls[2].symbol
  /\ \E n \in DOMAIN rLast.closed :
       /\ rLast.closed[n] = rDecls[2].symbol
       /\ \E b \in rLast.binds : b.name = n /\ b.symbol = rDecls[1].symbol

\* C20: the TAC of a For statement labelled L is: the init (nothing when
\* absent), Label L_start, the condition's evaluation ending in a Copy and a
\* JumpIfZero to L_break (only when there is a condition; without one no
\* conditional jump to L_break exists), the body, Label L_continue, the post
\* (nothing when absent), Jump L_start, Label L_break; and every Continue of
\* the body that belongs to the For is a Jump to L_continue inside the body.
C20_ForOrder ==
  pPc = "tas" =>
    \A f \in 1..Len(pTas) :
      LET st == pBody[f][1].statement
          code == pTas[f]
      IN
      st.kind = "For" =>
        LET startLabel == LoopLabel(st.label, "start")
            continueLabel == LoopLabel(st.label, "continue")
            breakLabel == LoopLabel(st.label, "break")
            toBreak == {i \in 1..Len(code) :
                          /\ code[i].kind \in {"JumpIfZero", "JumpIfNotZero"}
                          /\ code[i].label = breakLabel}
        IN
        \E s, c \in 1..Len(code) :
          LET bodyStart == IF st.condition = Undefined THEN s + 1
                           ELSE Only(toBreak) + 1
          IN
          /\ LabelPlaces(code, startLabel) = {s}
          /\ LabelPlaces(code, continueLabel) = {c}
          /\ LabelPlaces(code, breakLabel) = {Len(code)}
          /\ code[Len(code) - 1] = TasJump(startLabel)
          /\ s < c /\ c < Len(code) - 1
          /\ (st.init.init = Undefined) <=> (s = 1)
          /\ (st.post = Undefined) <=> (c = Len(code) - 2)
          /\ IF st.condition = Undefined THEN toBreak = {}
             ELSE \E k \in (s + 2)..(c - 1) :
                    /\ toBreak = {k}
                    /\ code[k].kind = "JumpIfZero"
                    /\ code[k - 1].kind = "Copy"
                    /\ code[k - 1].destination = code[k].condition
          /\ Cardinality({i \in bodyStart..(c - 1) : code[i] = TasJump(continueLabel)})
               = OwnJumps(st.body, "Continue")

\* C21: the TAC of `c ? a : b`, nested ones included: c's value is copied
\* and tested by a JumpIfZero to the else label before either arm; the true
\* arm ends in a Jump to the end label placed just before the else label; a
\* run executes the true arm's instructions only when c's value is non-zero
\* and the false arm's only when it is zero; and the run returns the value,
\* and leaves the variables, that C gives the expression.
C21_ConditionalValue ==
  (tPc \in {"exec", "returned"} /\ tExpr.kind = "Conditional") =>
    \A p \in {ConditionalParts(tExpr)} :
    /\ tCode[p.jump - 1].kind = "Copy"
    /\ tCode[p.jump - 1].destination = p.condResult
    /\ tCode[p.jump] = TasJumpIfZero(p.condResult, p.elseLabel)
    /\ tCode[p.else - 1] = TasJump(p.endLabel)
    /\ LabelPlaces(tCode, p.elseLabel) = {p.else}
    /\ LabelPlaces(tCode, p.endLabel) = {p.end}
    /\ tCode[p.end + 1] = TasReturn(p.result)
    /\ (tPc = "exec" /\ tIp \in p.trueFirst..p.trueLast) => tEnv[p.condResult.symbol] # 0
    /\ (tPc = "exec" /\ tIp \in p.falseFirst..p.falseLast) => tEnv[p.condResult.symbol] = 0
    /\ tPc = "returned" =>
         \A c \in {CEval(tExpr, tIn)} :
           /\ tRet = c.v
           /\ \A x \in DOMAIN tIn : tEnv[x] = c.env[x]
\* `a ? (b ? 0 : 2) : (b = 2)` with a = 1, b = 0 has returned 2 and b is still 0
C21_Witness ==
  /\ tPc = "returned"
  /\ tExpr = ConditionalExpr(TVarA, ConditionalExpr(TVarB, NumLiteral(0), NumLiteral(2)),
                             Assignment(TVarB, NumLiteral(2)))
  /\ tIn[TVarA.symbol] = 1 /\ tIn[TVarB.symbol] = 0
  /\ tRet = 2
  /\ tEnv[TVarB.symbol] = 0

\* C25: a declaration whose initializer mentions the declared name is
\* accepted (it fails only as a duplicate, for another name that is not
\* declared, or for an invalid assignment target), and every occurrence of
\* the name in the initializer carries the new symbol of this declaration,
\* never the symbol of an outer declaration of the name.
C25_SelfReference ==
  rLast.kind = "Declaration" =>
    /\ (~rLast.dup /\ rLast.undeclared = {} /\ ~rLast.invalid) => rPc # "failed"
    /\ rPc # "failed" =>
         /\ rLast.fresh
         /\ \A b \in rLast.binds : b.name = rLast.name => b.symbol = rLast.symbol
\* inside an inner block `int a = <expression mentioning a>;` after an outer `int a;`
C25_Witness ==
  /\ rLast.kind = "Declaration"
  /\ rPc = "run"
  /\ rLast.outer
  /\ Len(rDecls) = 2
  /\ rDecls[2].symbol = rLast.symbol
  /\ \E b \in rLast.binds : b.name = rLast.name /\ b.symbol = rLast.symbol
  /\ \A b \in rLast.binds : b.symbol # rDecls[1].symbol

\* C27: in the TAC of every function of a program the temporaries are
\* numbered from 0 and so are the labels made by makeLabel.
C27_PerFunctionCounters ==
  pPc = "tas" =>
    \A f \in 1..Len(pTas) :
      /\ TempNumbers(pTas[f]) # {} => 0 \in TempNumbers(pTas[f])
      /\ LabelNumbers(pTas[f]) # {} => 0 \in LabelNumbers(pTas[f])

\* C24: no instruction produced by passes A and B has R10 or R11 as an
\* operand, and in the output of pass C every read of R10 or R11 follows a
\* write of that register made for the same input instruction, so that no
\* value of a scratch register passes from one rewritten group to a later one.
C24_ScratchRegisters ==
  /\ \A ins \in {cAsmA[i] : i \in 1..Len(cAsmA)} \cup {cAsmB[i] : i \in 1..Len(cAsmB)} :
       \A j \in 1..Len(AsmOperands(ins)) : AsmOperands(ins)[j] \notin Scratch
  /\ cPhase = "C" =>
       \A i \in 1..Len(cAsmB) : ScratchLocal(fixupInstruction(cAsmB[i]))

\* pass C has rewritten a list with a Mov between stack slots, a Cmp with a
\* constant b and a Multiply into a stack slot: its output uses R10 and R11
C24_Witness ==
  /\ cPhase = "C"
  /\ \E i \in 1..Len(cAsmC) : cAsmC[i].kind = "Cmp" /\ cAsmC[i].b = Reg(R11)
  /\ \E i \in 1..Len(cAsmC) : cAsmC[i].kind = "Mov" /\ cAsmC[i].source = Reg(R10)
  /\ \E i \in 1..Len(cAsmC) :
       cAsmC[i].kind = "BinaryOperation" /\ cAsmC[i].operand2 = Reg(R11)

\* C28: every instruction of the input of pass C has, in order, an
\* instruction of the same kind and operator in its output, and no
\* BinaryOperation of two stack slots with an operator other than Add,
\* Subtract and Multiply reaches pass C.
C28_NothingDropped ==
  cPhase = "C" =>
    /\ Represented(cAsmB, cAsmC)
    /\ \A i \in 1..Len(cAsmB) :
         /\ fixupInstruction(cAsmB[i]) # <<>>
         /\ cAsmB[i].kind = "BinaryOperation" => cAsmB[i].operator \in {"+", "-", "*"}

\* pass C has run on a list with a Multiply and a Subtract of two stack slots
C28_Witness ==
  /\ cPhase = "C"
  /\ \E i \in 1..Len(cAsmB) :
       /\ cAsmB[i].kind = "BinaryOperation" /\ cAsmB[i].operator = "*"
       /\ cAsmB[i].operand1.kind = "Stack" /\ cAsmB[i].operand2.kind = "Stack"
  /\ \E i \in 1..Len(cAsmB) :
       /\ cAsmB[i].kind = "BinaryOperation" /\ cAsmB[i].operator = "-"
       /\ cAsmB[i].operand1.kind = "Stack" /\ cAsmB[i].operand2.kind = "Stack"
  /\ Len(cAsmC) > Len(cAsmB)

\* C29: after pass B every Stack(o) operand lies in the frame the
\* AllocateStack(N) at the head of the list allocates, -N <= o <= -4, and
\* distinct pseudos have distinct slots.
C29_SlotsInFrame ==
  cPhase = "B" =>
    LET before == AllOperands(cAsmA)
        after == AllOperands(SkipAllocateStack(cAsmB))
    IN  /\ \A i \in 1..Len(after) :
             after[i].kind = "Stack" =>
               /\ cAsmB[1].kind = "AllocateStack"
               /\ 0 - cAsmB[1].value <= after[i].value
               /\ after[i].value <= -4
        /\ \A i, j \in 1..Len(before) :
             (before[i].kind = "PseudoReg" /\ before[j].kind = "PseudoReg"
              /\ before[i].symbol # before[j].symbol) => after[i] # after[j]

\* C26: every token tokenize emits carries as its line 1 plus the number of
\* newline characters of the input before the token's first character.
C26_TokenLines ==
  \A k \in 1..Len(lxTokens) :
    lxTokens[k].type # "EOF" =>
      lxTokens[k].line = 1 + Cardinality({i \in NewlinePlaces(lxInput) : i < lxStarts[k]})

\* C22: when the instructions selected for a relational Binary{rel, s1, s2, d}
\* have run, rewritten by passes B and C, d holds 1 if s1 rel s2 holds for
\* the signed values of s1 and s2 and 0 otherwise.
C22_RelationalValue ==
  mPc \in {"run", "done"} =>
    \A t \in 1..Len(mTas) :
      (/\ mTas[t].kind = "BinaryOperation"
       /\ mTas[t].operator \in Relational
       /\ mLast = SelectedEnd(t)) =>
        TasVal(mB, mTas[t].destination)
          = TasBinaryValue(mTas[t].operator, TasVal(mB, mTas[t].source1),
                           TasVal(mB, mTas[t].source2))

\* a `<` of two stack slots with the left one smaller has run through its
\* SetCC, the Cmp rewritten with R10
C22_Witness ==
  /\ mPc = "run"
  /\ mLast > 0
  /\ mIn[mLast].kind = "SetCC"
  /\ mIn[mLast].condition = "l"
  /\ mIn[mLast - 2].a.kind = "Stack" /\ mIn[mLast - 2].b.kind = "Stack"
  /\ Val(mB, mIn[mLast - 2].b) < Val(mB, mIn[mLast - 2].a)
  /\ Val(mB, mIn[mLast].operand) = 1
  /\ mOut[mB.ip - 4] = Mov(mIn[mLast - 2].a, Reg(R10))

\* C23: the list pass C returns and the list it was given, run from the
\* same machine state, leave after each instruction of the input the same
\* values in AX, DX and the stack slots and the same flags, have taken the
\* same jumps and stand at the same place or have ended the same way.
C23_SameMeaning ==
  mPc \in {"run", "done"} =>
    /\ mB.status = mA.status
    /\ mB.reg[AX] = mA.reg[AX]
    /\ mB.reg[DX] = mA.reg[DX]
    /\ mB.stack = mA.stack
    /\ mB.flags = mA.flags
    /\ mB.taken = mA.taken
    /\ mA.ip <= Len(mIn) => mB.ip = GroupStart(mA.ip)

\* both runs have returned after a jump taken, and the run of the rewritten
\* list has left another value in a scratch register
C23_Witness ==
  /\ mPc = "done"
  /\ mA.status = "returned"
  /\ mA.taken # <<>>
  /\ mB.reg[R10] # mA.reg[R10]
  /\ Len(mOut) > Len(mIn)

\* C30: produceAst ends on every token sequence that ends with EOF, with a
\* Program returned or with an error, and every iteration of its loops
\* (functions, block items, expression) leaves fewer tokens than the one
\* before.
C30_Terminates ==
  /\ []IterationConsumes
  /\ <>(paPc \in {"done", "failed"})

\* a parse has ended with an error on a `{` never closed, after an
\* iteration of a block loop and of an expression loop
C30_Witness ==
  /\ paPc = "failed"
  /\ paInput = PaHead \o <<"OpenBrace", "Identifier", "Plus", "EOF">>
  /\ paTokens = <<>>
  /\ \E i \in 1..Len(paTodo) : paTodo[i].kind = "block" /\ paTodo[i].seen # NoCount
  /\ \E i \in 1..Len(paTodo) : paTodo[i].kind = "exprLoop" /\ paTodo[i].seen # NoCount

\* C3: pass B replaces the k-th distinct Pseudo symbol of the instruction
\* list (k = 1, 2, ...) everywhere by Stack(-4*k); with three distinct
\* pseudos AllocateStack(12) is prepended.
C3_SlotOffsets ==
  cPhase = "B" =>
    LET before == AllOperands(cAsmA)
        after == AllOperands(SkipAllocateStack(cAsmB))
        order == Pseudos(cAsmA)
    IN  /\ Len(after) = Len(before)
        /\ \A i \in 1..Len(before) :
             before[i].kind = "PseudoReg" =>
               \E k \in 1..Len(order) :
                 order[k] = before[i].symbol /\ after[i] = Stack((-4) * k)
        /\ Len(order) = 3 => Head(cAsmB) = AllocateStack(12)

\* C4: when the instruction list has a Pseudo operand, the output of pass B
\* starts with AllocateStack(n), n the largest absolute offset assigned;
\* when it has none, the output holds no AllocateStack.
C4_AllocateStack ==
  cPhase = "B" =>
    IF Pseudos(cAsmA) # <<>>
    THEN /\ cAsmB # <<>>
         /\ Head(cAsmB) = AllocateStack(MaxAbsOffset(cAsmB))
    ELSE \A i \in 1..Len(cAsmB) : cAsmB[i].kind # "AllocateStack"

\* C5: after passes A, B and C there is no Mov, Cmp or Add/Subtract
\* BinaryOperation with both operands Stack, no Cmp whose b is Imm, no Idiv of
\* an Imm and no Multiply whose operand2 is Stack.
C5_LegalInstructions ==
  \A i \in 1..Len(cAsmC) :
    LET ins == cAsmC[i] IN
    /\ ins.kind = "Mov" => ~(ins.source.kind = "Stack" /\ ins.destination.kind = "Stack")
    /\ ins.kind = "Cmp" => ~(ins.a.kind = "Stack" /\ ins.b.kind = "Stack") /\ ins.b.kind # "Imm"
    /\ ins.kind = "BinaryOperation" /\ ins.operator \in {"+", "-"} =>
         ~(ins.operand1.kind = "Stack" /\ ins.operand2.kind = "Stack")
    /\ ins.kind = "Idiv" => ins.operand.kind # "Imm"
    /\ ins.kind = "BinaryOperation" /\ ins.operator = "*" => ins.operand2.kind # "Stack"

\* pass C has run on a list that held a Mov between two stack slots, a
\* Multiply into a stack slot, an Idiv of a constant and a Cmp with a constant b
C5_Witness ==
  /\ cPhase = "C"
  /\ \E i \in 1..Len(cAsmB) :
       cAsmB[i].kind = "Mov" /\ cAsmB[i].source.kind = "Stack" /\ cAsmB[i].destination.kind = "Stack"
  /\ \E i \in 1..Len(cAsmB) :
       cAsmB[i].kind = "BinaryOperation" /\ cAsmB[i].operator = "*" /\ cAsmB[i].operand2.kind = "Stack"
  /\ \E i \in 1..Len(cAsmB) : cAsmB[i].kind = "Idiv" /\ cAsmB[i].operand.kind = "Imm"

\* C6: after pass B no operand is a PseudoReg and every Stack offset is a
\* non-positive multiple of 4.
C6_NoPseudoLeft ==
  LET ops == AllOperands(cAsmB) IN
  \A i \in 1..Len(ops) :
    /\ ops[i].kind # "PseudoReg"
    /\ ops[i].kind = "Stack" => ops[i].value <= 0 /\ ops[i].value % 4 = 0

\* pass B has run on a list with three distinct pseudos, among them the
\* operand of a SetCC and of an Idiv
C6_Witness ==
  /\ cPhase = "B"
  /\ Len(Pseudos(cAsmA)) >= 3
  /\ \E i \in 1..Len(cAsmA) : cAsmA[i].kind = "SetCC" /\ cAsmA[i].operand.kind = "PseudoReg"
  /\ \E i \in 1..Len(cAsmA) : cAsmA[i].kind = "Idiv" /\ cAsmA[i].operand.kind = "PseudoReg"

====
